---- MODULE Spec2Model ----
(***************************************************************************)
(* csvprocessor: the chunked row pipeline.                                 *)
(*                                                                         *)
(* New assembles a Processor from a list of options and validates it;      *)
(* Process pulls rows from the CsvReader, opens one output chunk after     *)
(* another through the OutputChunkGenerator, writes the (transformed)      *)
(* header and rows, and flushes and closes each chunk.                     *)
(*                                                                         *)
(* Slices are modelled with their sharing: `arr` is the backing array of   *)
(* the record most recently returned by the reader (csv.Reader with        *)
(* ReuseRecord keeps one array and overwrites it; a plain reader           *)
(* allocates a new one per record), `row` is the slice over its first      *)
(* Len(row) cells, and `header` is the stored Processor.header, which may  *)
(* still share that array (headerShared).                                  *)
(***************************************************************************)
EXTENDS Integers, Sequences, FiniteSets, TLC

\* ------------------------------------------------------------------ bounds
\* most rows (or failed reads) the reader yields before end of stream
MaxRows == 4
\* largest chunk size configured
MaxChunkSize == 3
\* largest row number in the context of a transformer called on its own
MaxRowNum == 5
\* largest column index handed to AddConstantColumnTransformer
MaxColumIndex == 4

\* ------------------------------------------------------------- input values
\* records the reader can return; lengths differ so that a reused record
\* array is both overwritten in place and re-allocated
Rows == { <<"a", "b">>, <<"b", "c">>, <<"c", "a", "b">> }

\* the replacement map handed to ReplaceValuesTransformer
Replacements == ("a" :> "b") @@ ("b" :> "c")

\* nil slice / nil record
NilRow == << >>

\* ----------------------------------------------------------------- options
WithReader == [name |-> "WithReader", reader |-> "plain"]

\* WithReader(reader) for any reader value
WithReaderOf(reader) == [name |-> "WithReader", reader |-> reader]

\* csv.NewReader(r): never nil; over a nil io.Reader it is still a *csv.Reader
csvNewReader(r) == IF r = "nil" THEN "plainOverNil" ELSE "plain"

WithFileReader(file) == [name |-> "WithFileReader", file |-> file]

WithOutputFileFormat(format) == [name |-> "WithOutputFileFormat", format |-> format]

WithTransformer(t) == [name |-> "WithTransformer", t |-> t]

WithWriterGenerator == [name |-> "WithWriterGenerator"]

WithChunkSize(size) == [name |-> "WithChunkSize", size |-> size]

SkipHeaders(skip) == [name |-> "SkipHeaders", skip |-> skip]

\* the package-level default the options are applied to
defaultProcessor ==
    [ reader               |-> "nil",
      outputChunkGenerator |-> "nil",
      chunkSize            |-> 0,
      skipHeaders          |-> FALSE,
      rowTransformer       |-> "noop" ]

\* one option applied to the processor under construction: [p, err]
ApplyOpt(p, opt) ==
    CASE opt.name = "WithReader" ->
            [p |-> [p EXCEPT !.reader = opt.reader], err |-> "nil"]
      [] opt.name = "WithFileReader" ->
            IF opt.file = "missing"
            THEN [p |-> p, err |-> "ErrOpen"]
            ELSE [p |-> [p EXCEPT !.reader = "reuse"], err |-> "nil"]
      [] opt.name = "WithTransformer" ->
            [p |-> [p EXCEPT !.rowTransformer =
                        IF opt.t = "nil" THEN "noop" ELSE opt.t],
             err |-> "nil"]
      [] opt.name = "WithOutputFileFormat" ->
            [p |-> [p EXCEPT !.outputChunkGenerator = "splitFileGenerator"],
             err |-> "nil"]
      [] opt.name = "WithWriterGenerator" ->
            [p |-> [p EXCEPT !.outputChunkGenerator = "generator"], err |-> "nil"]
      [] opt.name = "WithChunkSize" ->
            [p |-> [p EXCEPT !.chunkSize = opt.size], err |-> "nil"]
      [] opt.name = "SkipHeaders" ->
            [p |-> [p EXCEPT !.skipHeaders = opt.skip], err |-> "nil"]

\* the three checks of validate, in the order of the code
validate_ChunkSizeNegativeOnly(p) ==
    IF p.reader = "nil" THEN "ErrInputReaderNil"
    ELSE IF p.outputChunkGenerator = "nil" THEN "ErrOutputChunkGeneratorNotSet"
    ELSE IF p.chunkSize < 0 THEN "ErrInvalidChunkSize"
    ELSE "nil"

validate(p) ==
    IF p.reader = "nil" THEN "ErrInputReaderNil"
    ELSE IF p.outputChunkGenerator = "nil" THEN "ErrOutputChunkGeneratorNotSet"
    ELSE IF p.chunkSize <= 0 THEN "ErrInvalidChunkSize"
    ELSE "nil"

RECURSIVE ApplyOpts(_, _)
\* the option loop of New: stops at the first option that fails
ApplyOpts(p, os) ==
    IF os = << >> THEN [p |-> p, err |-> "nil"]
    ELSE LET r == ApplyOpt(p, Head(os))
         IN  IF r.err # "nil" THEN r ELSE ApplyOpts(r.p, Tail(os))

\* New(opts...): [p, nil, err]; nil is TRUE when the returned pointer is nil
NewProcessor_ReturnsProcessor(os) ==
    LET r == ApplyOpts(defaultProcessor, os)
    IN  [p |-> r.p, nil |-> FALSE,
         err |-> IF r.err # "nil" THEN r.err ELSE validate(r.p)]

NewProcessor_LastFirst(os) ==
    LET back == [i \in 1..Len(os) |-> os[Len(os) + 1 - i]]
        r    == ApplyOpts(defaultProcessor, back)
    IN  IF r.err # "nil" THEN [p |-> r.p, nil |-> TRUE, err |-> r.err]
        ELSE LET e == validate(r.p)
             IN  [p |-> r.p, nil |-> e # "nil", err |-> e]

NewProcessor(os) ==
    LET r == ApplyOpts(defaultProcessor, os)
    IN  IF r.err # "nil" THEN [p |-> r.p, nil |-> TRUE, err |-> r.err]
        ELSE LET e == validate(r.p)
             IN  [p |-> r.p, nil |-> e # "nil", err |-> e]

\* ------------------------------------------------------------ transformers
\* a replacement looked up again in the map
ReplaceValues_Transitive(r) ==
    [i \in 1..Len(r) |->
        IF r[i] \in DOMAIN Replacements
        THEN IF Replacements[r[i]] \in DOMAIN Replacements
             THEN Replacements[Replacements[r[i]]] ELSE Replacements[r[i]]
        ELSE r[i]]

\* ReplaceValuesTransformer: every field that is a key of the map is replaced
ReplaceValues(r) ==
    [i \in 1..Len(r) |-> IF r[i] \in DOMAIN Replacements THEN Replacements[r[i]] ELSE r[i]]

\* the transformer values: what each constructor of the package returns, and
\* Faulting for a caller-supplied transformer that panics on every row
NoOpTransformer == [kind |-> "NoOp"]

AddRowNoTransformer(columnName) == [kind |-> "AddRowNo", columnName |-> columnName]

AddChunkRowNoTransformer(columnName) ==
    [kind |-> "AddChunkRowNo", columnName |-> columnName]

ReplaceValuesTransformer == [kind |-> "ReplaceValues"]

AddConstantColumnTransformer(columnName, val, columIndex) ==
    [kind |-> "AddConstantColumn", columnName |-> columnName, val |-> val,
     columIndex |-> columIndex]

ChainTransformers(transformers) == [kind |-> "Chain", transformers |-> transformers]

PanicSafe(transformer) == [kind |-> "PanicSafe", transformer |-> transformer]

DebugWrapper(transformer) == [kind |-> "DebugWrapper", transformer |-> transformer]

Faulting == [kind |-> "Faulting"]

\* the transformers the pipeline is configured with, by name
Named(t) ==
    CASE t = "noop"      -> NoOpTransformer
      [] t = "replace"   -> ReplaceValuesTransformer
      [] t = "panic"     -> Faulting
      [] t = "safepanic" -> PanicSafe(Faulting)
      [] t = "chunkrowno" -> AddChunkRowNoTransformer("S.no")

\* one call transformer(ctx, row): [ret, panic, logs, seen, trace], defined below
RECURSIVE Run(_, _, _)

\* the row a transformer returns
Transform(t, cx, r) ==
    CASE t = "noop"    -> r
      [] t = "replace" -> ReplaceValues(r)
      [] OTHER         -> Run(Named(t), cx, r).ret

\* the cells of the argument slice once the transformer has returned
\* (ReplaceValuesTransformer assigns row[i] in place)
ArgAfter(t, cx, r) ==
    CASE t = "noop"    -> r
      [] t = "replace" -> ReplaceValues(r)
      [] OTHER         -> r

\* --------------------------------------------------------------- context
\* csvCtx.setValue
setValue(cx, key, val) == (key :> val) @@ cx

\* newCtx
newCtx == [k \in {} |-> 0]

\* ctx.Value(key).(bool): the zero value when the key is absent
BoolValue_AbsentIsTrue(cx, key) == key \notin DOMAIN cx \/ cx[key] = TRUE

BoolValue(cx, key) == key \in DOMAIN cx /\ cx[key] = TRUE

\* ctx.Value(key).(int): the zero value when the key is absent
IntValue(cx, key) == IF key \in DOMAIN cx THEN cx[key] ELSE 0

\* --------------------------------------------------- calling a transformer
Digits == <<"0", "1", "2", "3", "4", "5", "6", "7", "8", "9">>

RECURSIVE Itoa(_)
\* strconv.Itoa: the decimal digits of n, most significant first
Itoa(n) ==
    IF n < 0 THEN "-" \o Itoa(0 - n)
    ELSE IF n < 10 THEN Digits[n + 1]
    ELSE Itoa(n \div 10) \o Digits[(n % 10) + 1]

\* slice[(index+1):] and slice[index:] of the appended slice are in range
InRange_CellAppended(slice, index) == 0 <= index /\ index <= Len(slice) + 1

InRange(slice, index) == 0 <= index /\ index <= Len(slice)

\* addToSliceAtIndex: append "", copy the tail one cell up, assign slice[index]
addToSliceAtIndex_NoCopy(slice, val, index) ==
    [Append(slice, "") EXCEPT ![index + 1] = val]

addToSliceAtIndex(slice, val, index) ==
    LET s1 == Append(slice, "")
        s2 == [j \in 1..Len(s1) |-> IF j > index + 1 THEN s1[j - 1] ELSE s1[j]]
    IN  [s2 EXCEPT ![index + 1] = val]

\* chunkRowID := rowID % chunkSize; if chunkRowID == 0 { chunkRowID = chunkSize }
ChunkRowID_NoWrap(rowID, chunkSize) == rowID % chunkSize

ChunkRowID(rowID, chunkSize) ==
    IF rowID % chunkSize = 0 THEN chunkSize ELSE rowID % chunkSize

\* what a call did, in order: a log call with the row logged, the body of a
\* transformer of the package run to its return (with the row returned) or
\* to a panic, a recover
Event(ev, r) == [ev |-> ev, row |-> r]

\* a call that returned row r / a call that panicked
Returned(cx, r) ==
    [ret |-> r, panic |-> FALSE, logs |-> 0, seen |-> <<cx>>,
     trace |-> <<Event("call", r)>>]

Panicked(cx) ==
    [ret |-> NilRow, panic |-> TRUE, logs |-> 0, seen |-> <<cx>>,
     trace |-> <<Event("panic", NilRow)>>]

\* return addToSliceAtIndex(row, val, index), which panics out of range
Inserted(cx, r, val, index) ==
    IF InRange(r, index) THEN Returned(cx, addToSliceAtIndex(r, val, index))
    ELSE Panicked(cx)

\* PanicSafe: the deferred recover logs once and the call returns the zero
\* value of its unnamed result; o is the outcome of the wrapped call
Recovered_Propagates(o) == o

Recovered(o) ==
    IF o.panic
    THEN [o EXCEPT !.ret = NilRow, !.panic = FALSE, !.logs = @ + 1,
                   !.trace = Append(@, Event("recovered", NilRow))]
    ELSE o

\* DebugWrapper: log the row, call the transformer, log what it returned,
\* return it; o is the outcome of the wrapped call on row r
DebugLogged_BeforeOnly(r, o) ==
    [o EXCEPT !.logs = @ + 1, !.trace = <<Event("log", r)>> \o @]

DebugLogged(r, o) ==
    IF o.panic
    THEN [o EXCEPT !.logs = @ + 1, !.trace = <<Event("log", r)>> \o @]
    ELSE [o EXCEPT !.logs = @ + 2,
                   !.trace = <<Event("log", r)>> \o @ \o <<Event("log", o.ret)>>]

\* ChainTransformers, one iteration: row = transformer(ctx, row), after the
\* iterations that gave outcome o
ChainStep_DropsNext(o, next) == o

ChainStep(o, next) ==
    [ret |-> next.ret, panic |-> next.panic, logs |-> o.logs + next.logs,
     seen |-> o.seen \o next.seen, trace |-> o.trace \o next.trace]

Run(T, cx, r) ==
    CASE T.kind = "NoOp" -> Returned(cx, Transform("noop", cx, r))
      [] T.kind = "ReplaceValues" -> Returned(cx, Transform("replace", cx, r))
      [] T.kind = "AddRowNo" ->
            IF BoolValue(cx, "CtxIsHeader") THEN Inserted(cx, r, T.columnName, 0)
            ELSE Inserted(cx, r, Itoa(IntValue(cx, "CtxRowNum")), 0)
      [] T.kind = "AddChunkRowNo" ->
            IF BoolValue(cx, "CtxIsHeader") THEN Inserted(cx, r, T.columnName, 0)
            ELSE IF IntValue(cx, "CtxChunkSize") = 0 THEN Panicked(cx)
            ELSE Inserted(cx, r, Itoa(ChunkRowID(IntValue(cx, "CtxRowNum"),
                                                 IntValue(cx, "CtxChunkSize"))), 0)
      [] T.kind = "AddConstantColumn" ->
            IF BoolValue(cx, "CtxIsHeader") THEN Inserted(cx, r, T.columnName, T.columIndex)
            ELSE Inserted(cx, r, T.val, T.columIndex)
      [] T.kind = "Faulting" -> Panicked(cx)
      [] T.kind = "PanicSafe" -> Recovered(Run(T.transformer, cx, r))
      [] T.kind = "DebugWrapper" -> DebugLogged(r, Run(T.transformer, cx, r))
      [] T.kind = "Chain" ->
            IF T.transformers = << >>
            THEN [ret |-> r, panic |-> FALSE, logs |-> 0, seen |-> << >>,
                  trace |-> << >>]
            ELSE LET n    == Len(T.transformers)
                     o    == Run(ChainTransformers(SubSeq(T.transformers, 1, n - 1)), cx, r)
                     next == Run(T.transformers[n], cx, o.ret)
                 IN  IF o.panic THEN o ELSE ChainStep(o, next)

\* the named transformer panics on this call
Panics(t, cx, r) == Run(Named(t), cx, r).panic

\* the calls of the PanicSafe logger made during this call
Logs(t, cx, r) == Run(Named(t), cx, r).logs

\* ------------------------------------------------------------------ state
VARIABLES
    opts,          \* the options handed to New
    processor,     \* the Processor struct New builds
    procNil,       \* New returned a nil *Processor
    newErr,        \* the error New returned
    pc,            \* position in New / Process
    currentRow,    \* process: data rows so far
    currentSplit,  \* process: ordinal of the current chunk
    addHeaders,    \* process: header still to be written into this chunk
    needNewChunk,  \* process: the next row opens a new chunk
    ctx,           \* process: the one csvCtx, updated in place
    row,           \* process: the record returned by the last Read
    fileWriter,    \* process: index of the sink the CsvWriter wraps, 0 = nil
    outputFile,    \* process: index of the open io.WriteCloser, 0 = nil
    err,           \* the error Process returned ("nil" for none)
    header,        \* Processor.header
    headerShared,  \* header shares the backing array arr
    arr,           \* backing array of the last record the reader returned
    input,         \* history: what each Read returned
    sinks,         \* history: per chunk opened, the rows written and the calls made
    genCalls,      \* history: the chunk ids the OutputChunkGenerator was called with
    calls,         \* history: every transformer call, with the context it saw
    fault,         \* history: the sink operation the environment made fail
    ctor,          \* the constructor called, with its arguments
    callee,        \* a transformer called on its own
    argCtx,        \* the context handed to callee
    argRow,        \* the row handed to callee
    result,        \* what the call of callee did: [ret, panic, logs, seen]
    ch,            \* streamRows: the elements held by the channel, oldest first
    chClosed,      \* streamRows: close(ch) has run
    producer,      \* streamRows: position of the goroutine
    received       \* history: the elements the range loop of Process received

vars == << opts, processor, procNil, newErr, pc, currentRow, currentSplit, addHeaders,
           needNewChunk, ctx, row, fileWriter, outputFile, err, header, headerShared,
           arr, input, sinks, genCalls, calls, fault, ctor, callee, argCtx, argRow,
           result, ch, chClosed, producer, received >>

chanVars == << ch, chClosed, producer, received >>

callVars == << ctor, callee, argCtx, argRow, result >>

cfgVars == << opts, processor, procNil, newErr >>

\* ------------------------------------------------------------ option lists
ReaderOpts == { << >>, <<WithReader>>, <<WithFileReader("ok")>>, <<WithFileReader("missing")>> }

GeneratorOpts == { << >>, <<WithWriterGenerator>> }

ChunkSizeOpts == { << >> } \cup { <<WithChunkSize(k)>> : k \in (0 - 1)..MaxChunkSize }

SkipOpts == { << >>, <<SkipHeaders(TRUE)>> }

TransformerOpts ==
    { << >>, <<WithTransformer("replace")>>, <<WithTransformer("safepanic")>>,
      <<WithTransformer("panic")>> }

OptLists ==
    { r \o g \o k \o s \o t :
        r \in ReaderOpts, g \in GeneratorOpts, k \in ChunkSizeOpts,
        s \in SkipOpts, t \in TransformerOpts }

\* no call of callee made yet
NoResult ==
    [ret |-> NilRow, panic |-> FALSE, logs |-> 0, seen |-> << >>, trace |-> << >>]

Init ==
    /\ opts \in OptLists
    /\ processor = defaultProcessor
    /\ procNil = TRUE
    /\ newErr = "nil"
    /\ pc = "new"
    /\ currentRow = 0
    /\ currentSplit = 0
    /\ addHeaders = FALSE
    /\ needNewChunk = FALSE
    /\ ctx = newCtx
    /\ row = NilRow
    /\ fileWriter = 0
    /\ outputFile = 0
    /\ err = "nil"
    /\ header = NilRow
    /\ headerShared = FALSE
    /\ arr = << >>
    /\ input = << >>
    /\ sinks = << >>
    /\ genCalls = << >>
    /\ calls = << >>
    /\ fault = "none"
    /\ ctor = [fn |-> "New"]
    /\ callee = NoOpTransformer
    /\ argCtx = newCtx
    /\ argRow = NilRow
    /\ result = NoResult
    /\ ch = << >>
    /\ chClosed = FALSE
    /\ producer = "idle"
    /\ received = << >>

procVars == << currentRow, currentSplit, addHeaders, needNewChunk, ctx, row, fileWriter,
               outputFile, err, header, headerShared, arr, input, sinks, genCalls,
               calls, fault >>

\* New(opts...)
New ==
    /\ pc = "new"
    /\ LET r == NewProcessor(opts)
       IN  /\ processor' = r.p
           /\ procNil' = r.nil
           /\ newErr' = r.err
           /\ pc' = IF r.nil THEN "invalid" ELSE "ready"
    /\ UNCHANGED << opts, procVars, callVars, chanVars >>

\* addHeaders := !c.skipHeaders
InitAddHeaders_Always(c) == TRUE

InitAddHeaders(c) == ~c.skipHeaders

\* Process: the locals of process() before the loop
Process ==
    /\ pc = "ready"
    /\ currentRow' = 0
    /\ currentSplit' = 0
    /\ addHeaders' = InitAddHeaders(processor)
    /\ needNewChunk' = TRUE
    /\ ctx' = setValue(newCtx, "CtxChunkSize", processor.chunkSize)
    /\ fileWriter' = 0
    /\ outputFile' = 0
    /\ pc' = "read"
    /\ UNCHANGED << chanVars, callVars, cfgVars, row, err, header, headerShared, arr, input, sinks,
                    genCalls, calls, fault >>

\* ----------------------------------------------------------------- reader
\* where the loop body goes once Read has returned something other than io.EOF
\* (the error of Read is looked at for io.EOF only)
AfterRead == IF needNewChunk THEN "close" ELSE IF addHeaders THEN "header" ELSE "row"

\* the first Len(s) cells of array a overwritten with s
Overwrite(a, s) == [i \in 1..Len(a) |-> IF i <= Len(s) THEN s[i] ELSE a[i]]

\* csv.Reader.Read allocates a new record array unless ReuseRecord is set and
\* the record fits the array of the previous record
Reallocates(reader, a, rec) == reader = "plain" \/ Len(rec) > Len(a)

\* c.reader.Read() returns io.EOF: break
ReadEOF ==
    /\ pc = "read"
    /\ pc' = "final"
    /\ UNCHANGED << chanVars, callVars, cfgVars, currentRow, currentSplit, addHeaders, needNewChunk, ctx, row,
                    fileWriter, outputFile, err, header, headerShared, arr, input, sinks,
                    genCalls, calls, fault >>

\* c.reader.Read() returns a record
ReadRecord ==
    /\ pc = "read"
    /\ Len(input) < MaxRows
    /\ \E rec \in Rows :
          LET fresh == Reallocates(processor.reader, arr, rec)
              arr1  == IF fresh THEN rec ELSE Overwrite(arr, rec)
              still == headerShared /\ ~fresh
          IN  /\ row' = rec
              /\ arr' = arr1
              /\ headerShared' = still
              /\ header' = IF still THEN SubSeq(arr1, 1, Len(header)) ELSE header
              /\ input' = Append(input, [row |-> rec, err |-> "nil"])
    /\ pc' = AfterRead
    /\ UNCHANGED << chanVars, callVars, cfgVars, currentRow, currentSplit, addHeaders, needNewChunk, ctx,
                    fileWriter, outputFile, err, sinks, genCalls, calls, fault >>

\* c.reader.Read() returns (nil, err) with err other than io.EOF
ReadError ==
    /\ pc = "read"
    /\ Len(input) < MaxRows
    /\ row' = NilRow
    /\ input' = Append(input, [row |-> NilRow, err |-> "ErrRead"])
    /\ pc' = AfterRead
    /\ UNCHANGED << chanVars, callVars, cfgVars, currentRow, currentSplit, addHeaders, needNewChunk, ctx,
                    fileWriter, outputFile, err, header, headerShared, arr, sinks,
                    genCalls, calls, fault >>

\* ------------------------------------------------------------------ sinks
\* a destination the generator returned: the records written, the calls made
NewSink == [rows |-> << >>, log |-> << >>]

\* flushAndCloseFile(fileWriter, outputFile): the error returned and which of
\* Flush and Close it called; flushOk / closeOk are what the sink answers
FlushAndCloseFile_NoClose(fw, of, flushOk, closeOk) ==
    IF fw # 0 /\ ~flushOk THEN [err |-> "ErrFlush", flush |-> TRUE, close |-> FALSE]
    ELSE [err |-> "nil", flush |-> fw # 0, close |-> FALSE]

FlushAndCloseFile_IgnoreFlushErr(fw, of, flushOk, closeOk) ==
    IF of # 0 /\ ~closeOk THEN [err |-> "ErrClose", flush |-> fw # 0, close |-> TRUE]
    ELSE [err |-> "nil", flush |-> fw # 0, close |-> of # 0]

FlushAndCloseFile(fw, of, flushOk, closeOk) ==
    IF fw # 0 /\ ~flushOk THEN [err |-> "ErrFlush", flush |-> TRUE, close |-> FALSE]
    ELSE IF of # 0 /\ ~closeOk THEN [err |-> "ErrClose", flush |-> fw # 0, close |-> TRUE]
    ELSE [err |-> "nil", flush |-> fw # 0, close |-> of # 0]

\* the sinks once flushAndCloseFile has made the calls r names
Flushed_CloseFirst(s, fw, of, r) ==
    LET s1 == IF r.close THEN [s EXCEPT ![of].log = Append(@, "close")] ELSE s
    IN  IF r.flush THEN [s1 EXCEPT ![fw].log = Append(@, "flush")] ELSE s1

Flushed(s, fw, of, r) ==
    LET s1 == IF r.flush THEN [s EXCEPT ![fw].log = Append(@, "flush")] ELSE s
    IN  IF r.close THEN [s1 EXCEPT ![of].log = Append(@, "close")] ELSE s1

\* the sink operation that failed among those flushAndCloseFile called
FlushFault(r, flushOk, closeOk) ==
    IF r.flush /\ ~flushOk THEN "flush"
    ELSE IF r.close /\ ~closeOk THEN "close"
    ELSE fault

\* the sinks once Write(rec) was called on sink fw; the record lands if ok
Written(s, fw, kind, rec, ok) ==
    [s EXCEPT ![fw].log = Append(@, "write"),
              ![fw].rows = IF ok THEN Append(@, [kind |-> kind, row |-> rec]) ELSE @]

\* ----------------------------------------------------------------- process
\* if needNewChunk: close previous chunk file
CloseChunk ==
    /\ pc = "close"
    /\ \E flushOk \in BOOLEAN, closeOk \in BOOLEAN :
          LET r == FlushAndCloseFile(fileWriter, outputFile, flushOk, closeOk)
          IN  /\ sinks' = Flushed(sinks, fileWriter, outputFile, r)
              /\ fault' = FlushFault(r, flushOk, closeOk)
              /\ err' = r.err
              /\ pc' = IF r.err # "nil" THEN "done" ELSE "open"
    /\ UNCHANGED << chanVars, callVars, cfgVars, currentRow, currentSplit, addHeaders, needNewChunk, ctx, row,
                    fileWriter, outputFile, header, headerShared, arr, input, genCalls,
                    calls >>

\* update split id, create next chunk file
OpenChunk ==
    /\ pc = "open"
    /\ currentSplit' = currentSplit + 1
    /\ ctx' = setValue(ctx, "CtxChunkNum", currentSplit + 1)
    /\ addHeaders' = InitAddHeaders(processor)
    /\ genCalls' = Append(genCalls, currentSplit + 1)
    /\ \E ok \in BOOLEAN :
          IF ok
          THEN /\ sinks' = Append(sinks, NewSink)
               /\ outputFile' = Len(sinks) + 1
               /\ fileWriter' = Len(sinks) + 1
               /\ pc' = IF InitAddHeaders(processor) THEN "header" ELSE "row"
               /\ UNCHANGED << err, fault >>
          ELSE /\ err' = "ErrGenerator"
               /\ fault' = "open"
               /\ outputFile' = 0
               /\ pc' = "done"
               /\ UNCHANGED << sinks, fileWriter >>
    /\ UNCHANGED << chanVars, callVars, cfgVars, currentRow, needNewChunk, row, header, headerShared, arr,
                    input, calls >>

\* if c.header == nil { c.header = row }
CaptureHeader(h, r) == IF h = NilRow THEN r ELSE h

\* if currentRow == 0 { needNewChunk = false; continue }
HeaderOnly_Always(cur) == TRUE

HeaderOnly_Never(cur) == FALSE

HeaderOnly(cur) == cur = 0

\* needNewChunk = (currentRow % c.chunkSize) == 0
NeedNewChunk_Early(cur, size) == ((cur + 1) % size) = 0

NeedNewChunk_Never(cur, size) == FALSE

NeedNewChunk_Always(cur, size) == TRUE

NeedNewChunk_OneLate(cur, size) == cur > 1 /\ ((cur - 1) % size) = 0

NeedNewChunk(cur, size) == (cur % size) = 0

\* what a failed Write does to process: return err
WriteFailed_Continue(next) == [pc |-> next, err |-> "nil"]

WriteFailed(next) == [pc |-> "done", err |-> "ErrWrite"]

\* ctx.setValue(CtxIsHeader, ...), ctx.setValue(CtxRowNum, ...) before a call
RowCtx_HeaderAsData(cx, isHeader, rowNum) ==
    setValue(setValue(cx, "CtxIsHeader", FALSE), "CtxRowNum", rowNum)

RowCtx(cx, isHeader, rowNum) ==
    setValue(setValue(cx, "CtxIsHeader", isHeader), "CtxRowNum", rowNum)

\* the record kept of a transformer call: the context and row it was given,
\* the sink its result goes to, the calls of the PanicSafe logger it made, the
\* number of reads made so far
Call(t, cx, r) ==
    [ctx |-> cx, row |-> r, sink |-> fileWriter, logs |-> Logs(t, cx, r),
     read |-> Len(input)]

\* if addHeaders: c.writeHeaders(row, ctx, fileWriter), then the rest of the branch
WriteHeaders ==
    /\ pc = "header"
    /\ LET capture == header = NilRow
           hdr0    == CaptureHeader(header, row)
           shared0 == IF capture THEN row # NilRow ELSE headerShared
           cx      == RowCtx(ctx, TRUE, -1)
           t       == processor.rowTransformer
           out     == Transform(t, cx, hdr0)
           hdr1    == ArgAfter(t, cx, hdr0)
           arr1    == IF shared0 THEN Overwrite(arr, hdr1) ELSE arr
           next    == IF HeaderOnly(currentRow) THEN "read" ELSE "row"
       IN  /\ ctx' = cx
           /\ calls' = Append(calls, Call(t, cx, hdr0))
           /\ header' = hdr1
           /\ headerShared' = shared0
           /\ arr' = arr1
           /\ row' = IF row # NilRow THEN SubSeq(arr1, 1, Len(row)) ELSE row
           /\ IF Panics(t, cx, hdr0)
              THEN /\ pc' = "panicked"
                   /\ UNCHANGED << sinks, addHeaders, needNewChunk, err, fault >>
              ELSE \E ok \in BOOLEAN :
                 /\ sinks' = Written(sinks, fileWriter, "header", out, ok)
                 /\ IF ok
                    THEN /\ addHeaders' = FALSE
                         /\ needNewChunk' = IF HeaderOnly(currentRow) THEN FALSE
                                            ELSE needNewChunk
                         /\ pc' = next
                         /\ UNCHANGED << err, fault >>
                    ELSE /\ fault' = "write"
                         /\ pc' = WriteFailed(next).pc
                         /\ err' = WriteFailed(next).err
                         /\ UNCHANGED << addHeaders, needNewChunk >>
    /\ UNCHANGED << chanVars, callVars, cfgVars, currentRow, currentSplit, fileWriter, outputFile, input,
                    genCalls >>

\* currentRow++, transform the row, write it; a panic of the transformer
\* unwinds process, which has no recover
WriteRow ==
    /\ pc = "row"
    /\ LET cur  == currentRow + 1
           cx   == RowCtx(ctx, FALSE, cur)
           t    == processor.rowTransformer
           out  == Transform(t, cx, row)
           row1 == ArgAfter(t, cx, row)
           arr1 == IF row # NilRow THEN Overwrite(arr, row1) ELSE arr
       IN  /\ currentRow' = cur
           /\ ctx' = cx
           /\ calls' = Append(calls, Call(t, cx, row))
           /\ row' = row1
           /\ arr' = arr1
           /\ header' = IF headerShared THEN SubSeq(arr1, 1, Len(header)) ELSE header
           /\ IF Panics(t, cx, row)
              THEN /\ pc' = "panicked"
                   /\ UNCHANGED << sinks, needNewChunk, err, fault >>
              ELSE \E ok \in BOOLEAN :
                 /\ sinks' = Written(sinks, fileWriter, "data", out, ok)
                 /\ IF ok
                    THEN /\ needNewChunk' = NeedNewChunk(cur, processor.chunkSize)
                         /\ pc' = "read"
                         /\ UNCHANGED << err, fault >>
                    ELSE /\ fault' = "write"
                         /\ pc' = WriteFailed("read").pc
                         /\ err' = WriteFailed("read").err
                         /\ UNCHANGED needNewChunk
    /\ UNCHANGED << chanVars, callVars, cfgVars, currentSplit, addHeaders, fileWriter, outputFile,
                    headerShared, input, genCalls >>

\* after the loop: return flushAndCloseFile(fileWriter, outputFile)
Finish ==
    /\ pc = "final"
    /\ \E flushOk \in BOOLEAN, closeOk \in BOOLEAN :
          LET r == FlushAndCloseFile(fileWriter, outputFile, flushOk, closeOk)
          IN  /\ sinks' = Flushed(sinks, fileWriter, outputFile, r)
              /\ fault' = FlushFault(r, flushOk, closeOk)
              /\ err' = r.err
    /\ pc' = "done"
    /\ UNCHANGED << chanVars, callVars, cfgVars, currentRow, currentSplit, addHeaders, needNewChunk, ctx, row,
                    fileWriter, outputFile, header, headerShared, arr, input, genCalls,
                    calls >>

Next ==
    \/ New
    \/ Process
    \/ ReadEOF
    \/ ReadRecord
    \/ ReadError
    \/ CloseChunk
    \/ OpenChunk
    \/ WriteHeaders
    \/ WriteRow
    \/ Finish

Spec == Init /\ [][Next]_vars

\* Process not started
Unstarted ==
    /\ currentRow = 0
    /\ currentSplit = 0
    /\ addHeaders = FALSE
    /\ needNewChunk = FALSE
    /\ ctx = newCtx
    /\ row = NilRow
    /\ fileWriter = 0
    /\ outputFile = 0
    /\ err = "nil"
    /\ header = NilRow
    /\ headerShared = FALSE
    /\ arr = << >>
    /\ input = << >>
    /\ sinks = << >>
    /\ genCalls = << >>
    /\ calls = << >>
    /\ fault = "none"
    /\ ch = << >>
    /\ chClosed = FALSE
    /\ producer = "idle"
    /\ received = << >>

\* ------------------------------------- a Row Source that fails for good
\* the last Read returned an error other than io.EOF
SourceFailed == input # << >> /\ input[Len(input)].err # "nil"

\* the configurations run against such a source
LiveOptLists ==
    { <<WithReader, WithWriterGenerator, WithChunkSize(k)>> \o sk :
        k \in 1..MaxChunkSize, sk \in SkipOpts }

InitLive ==
    /\ opts \in LiveOptLists
    /\ processor = defaultProcessor
    /\ procNil = TRUE
    /\ newErr = "nil"
    /\ pc = "new"
    /\ Unstarted
    /\ ctor = [fn |-> "New"]
    /\ callee = NoOpTransformer
    /\ argCtx = newCtx
    /\ argRow = NilRow
    /\ result = NoResult

\* a source that has failed returns neither a record nor io.EOF afterwards:
\* Read makes the same error again
ReadRecordWhileSound == ~SourceFailed /\ ReadRecord

ReadEOFWhileSound == ~SourceFailed /\ ReadEOF

\* the failed source is read once more after MaxRows reads: Read returns the
\* error again; from here on the histories are no longer extended
ReadErrorAgain ==
    /\ pc = "read"
    /\ SourceFailed
    /\ Len(input) >= MaxRows
    /\ row' = NilRow
    /\ pc' = "again"
    /\ UNCHANGED << chanVars, callVars, cfgVars, currentRow, currentSplit, addHeaders,
                    needNewChunk, ctx, fileWriter, outputFile, err, header, headerShared,
                    arr, input, sinks, genCalls, calls, fault >>

\* the rest of that iteration: the nil row is handled as a row and the loop
\* goes back to Read, unless a sink fails and process returns its error
IterateAgain ==
    /\ pc = "again"
    /\ \E ok \in BOOLEAN :
          IF ok THEN /\ pc' = "read"
                     /\ UNCHANGED << err, fault >>
          ELSE /\ pc' = WriteFailed("read").pc
               /\ err' = WriteFailed("read").err
               /\ fault' = "write"
    /\ UNCHANGED << chanVars, callVars, cfgVars, currentRow, currentSplit, addHeaders,
                    needNewChunk, ctx, row, fileWriter, outputFile, header, headerShared,
                    arr, input, sinks, genCalls, calls >>

NextLive ==
    \/ New
    \/ Process
    \/ ReadEOFWhileSound
    \/ ReadRecordWhileSound
    \/ ReadError
    \/ ReadErrorAgain
    \/ IterateAgain
    \/ CloseChunk
    \/ OpenChunk
    \/ WriteHeaders
    \/ WriteRow
    \/ Finish

\* Process is sequential code: it takes its next step whenever it has one
SpecLive == InitLive /\ [][NextLive]_vars /\ WF_vars(NextLive)

\* --------------------------------------------------------- the constructors
\* math.MaxInt64, the chunk size NewBufferReader sets: the largest integer
MaxInt64 == 2147483647

\* NewFileReader(inputFile, chunkSize, outputFileFormat, rowTransformer)
NewFileReader(inputFile, chunkSize, outputFileFormat, rowTransformer) ==
    << WithFileReader(inputFile), WithOutputFileFormat(outputFileFormat),
       WithTransformer(rowTransformer), WithChunkSize(chunkSize) >>

\* NewBufferReader(inputReader, outputWriter): the generator is a closure
\* that returns outputWriter, nil or not
NewBufferReader(inputReader, outputWriter) ==
    << WithReaderOf(csvNewReader(inputReader)), WithWriterGenerator,
       WithChunkSize(MaxInt64) >>

\* output file formats: empty, without and with the chunk id verb
Formats == { "", "out.csv", "out_%d.csv" }

\* option lists handed to New directly, with either kind of generator
NewOptLists ==
    { r \o g \o k :
        r \in ReaderOpts,
        g \in GeneratorOpts \cup { <<WithOutputFileFormat(f)>> : f \in Formats },
        k \in ChunkSizeOpts }

\* the constructor calls
Ctors ==
    { [fn |-> "New", opts |-> os] : os \in NewOptLists }
    \cup { [fn |-> "NewFileReader", inputFile |-> f, chunkSize |-> k,
             outputFileFormat |-> o, rowTransformer |-> t] :
               f \in {"ok", "missing"}, k \in (0 - 1)..MaxChunkSize, o \in Formats,
               t \in {"nil", "replace"} }
    \cup { [fn |-> "NewBufferReader", inputReader |-> r, outputWriter |-> w] :
               r \in {"nil", "reader"}, w \in {"nil", "writer"} }

\* the options a constructor call hands to New
CtorOpts(c) ==
    CASE c.fn = "New" -> c.opts
      [] c.fn = "NewFileReader" ->
            NewFileReader(c.inputFile, c.chunkSize, c.outputFileFormat, c.rowTransformer)
      [] c.fn = "NewBufferReader" -> NewBufferReader(c.inputReader, c.outputWriter)

InitNew ==
    /\ ctor \in Ctors
    /\ opts = CtorOpts(ctor)
    /\ processor = defaultProcessor
    /\ procNil = TRUE
    /\ newErr = "nil"
    /\ pc = "new"
    /\ Unstarted
    /\ callee = NoOpTransformer
    /\ argCtx = newCtx
    /\ argRow = NilRow
    /\ result = NoResult

NextNew == New

SpecNew == InitNew /\ [][NextNew]_vars

\* ------------------------------------------------------ splitFileGenerator
\* most calls made to one generator / largest chunk id handed to it
MaxOpens == 3
MaxSplit == 4

\* the parts of a format string as fmt reads it: literal text, a verb, "%%"
Lit(text) == [tok |-> "lit", text |-> text]

Verb(v) == [tok |-> "verb", text |-> v]

Percent == [tok |-> "percent", text |-> "%"]

\* the output file formats handed to splitFileGenerator, as fmt reads them
ParseFormat(format) ==
    CASE format = ""              -> << >>
      [] format = "out.csv"       -> <<Lit("out.csv")>>
      [] format = "out_%d.csv"    -> <<Lit("out_"), Verb("d"), Lit(".csv")>>
      [] format = "out_%s.csv"    -> <<Lit("out_"), Verb("s"), Lit(".csv")>>
      [] format = "out_%d_%d.csv" ->
            <<Lit("out_"), Verb("d"), Lit("_"), Verb("d"), Lit(".csv")>>
      [] format = "out%%.csv"     -> <<Lit("out"), Percent, Lit(".csv")>>

GeneratorFormats ==
    { "", "out.csv", "out_%d.csv", "out_%s.csv", "out_%d_%d.csv", "out%%.csv" }

\* a piece of what Sprintf returns: text, or an error marker, which starts "%!"
Piece(text, marker) == [text |-> text, marker |-> marker]

RECURSIVE Sprintf(_, _, _)
\* fmt.Sprintf(format, split): used says the one operand has been consumed
Sprintf(toks, split, used) ==
    IF toks = << >>
    THEN IF used THEN << >>
         ELSE <<Piece("%!(EXTRA int=" \o Itoa(split) \o ")", TRUE)>>
    ELSE LET t == Head(toks)
         IN  CASE t.tok = "lit" ->
                    <<Piece(t.text, FALSE)>> \o Sprintf(Tail(toks), split, used)
               [] t.tok = "percent" ->
                    <<Piece("%", FALSE)>> \o Sprintf(Tail(toks), split, used)
               [] t.tok = "verb" /\ used ->
                    <<Piece("%!" \o t.text \o "(MISSING)", TRUE)>>
                        \o Sprintf(Tail(toks), split, used)
               [] t.tok = "verb" /\ ~used /\ t.text = "d" ->
                    <<Piece(Itoa(split), FALSE)>> \o Sprintf(Tail(toks), split, TRUE)
               [] t.tok = "verb" /\ ~used /\ t.text # "d" ->
                    <<Piece("%!" \o t.text \o "(int=" \o Itoa(split) \o ")", TRUE)>>
                        \o Sprintf(Tail(toks), split, TRUE)

RECURSIVE Join(_)
\* the pieces as one string
Join(ps) == IF ps = << >> THEN "" ELSE Head(ps).text \o Join(Tail(ps))

RECURSIVE BeforeMarker(_)
\* strings.Split(filename, "%!")[0]
BeforeMarker_Whole(ps) == ps

BeforeMarker(ps) ==
    IF ps = << >> \/ Head(ps).marker THEN << >>
    ELSE <<Head(ps)>> \o BeforeMarker(Tail(ps))

\* the file name splitFileGenerator(outputFileFormat) opens for chunk split
FileName(outputFileFormat, split) ==
    Join(BeforeMarker(Sprintf(ParseFormat(outputFileFormat), split, FALSE)))

\* splitFileGenerator(outputFileFormat)
splitFileGenerator(outputFileFormat) ==
    [kind |-> "splitFileGenerator", outputFileFormat |-> outputFileFormat]

\* a generator built and not yet called; result holds the names it opened
InitGen ==
    /\ opts = << >>
    /\ processor = defaultProcessor
    /\ procNil = TRUE
    /\ newErr = "nil"
    /\ pc = "generator"
    /\ Unstarted
    /\ ctor = [fn |-> "none"]
    /\ callee \in { splitFileGenerator(f) : f \in GeneratorFormats }
    /\ argCtx = newCtx
    /\ argRow = NilRow
    /\ result = << >>

\* generator(split)
Generate ==
    /\ pc = "generator"
    /\ Len(genCalls) < MaxOpens
    /\ \E split \in 1..MaxSplit :
          /\ genCalls' = Append(genCalls, split)
          /\ result' = Append(result, FileName(callee.outputFileFormat, split))
    /\ UNCHANGED << cfgVars, pc, currentRow, currentSplit, addHeaders, needNewChunk, ctx,
                    row, fileWriter, outputFile, err, header, headerShared, arr, input,
                    sinks, calls, fault, ctor, callee, argCtx, argRow, chanVars >>

NextGen == Generate

SpecGen == InitGen /\ [][NextGen]_vars

\* ------------------------------------------- a transformer called on its own
\* the rows handed to the transformer: the records and the nil slice
CallRows == Rows \cup {NilRow}

\* cx with key set to the value in v, or left alone when v is empty
WithValue(cx, key, v) == IF v = << >> THEN cx ELSE setValue(cx, key, v[1])

\* the contexts handed to the transformer: each key set or absent; 100 and
\* 202 are the row numbers of the package's own test cases
CallCtxs ==
    { WithValue(WithValue(WithValue(newCtx, "CtxIsHeader", h), "CtxRowNum", n),
                "CtxChunkSize", k) :
        h \in {<< >>, <<TRUE>>, <<FALSE>>},
        n \in {<< >>} \cup { <<i>> : i \in (1..MaxRowNum) \cup {100, 202} },
        k \in {<< >>} \cup { <<i>> : i \in (1..MaxChunkSize) \cup {100} } }

\* the transformers chained
Chained ==
    { ReplaceValuesTransformer, AddRowNoTransformer("S.no"),
      AddConstantColumnTransformer("col", "v", 1) }

Chains ==
    {ChainTransformers(<< >>)}
    \cup { ChainTransformers(<<A>>) : A \in Chained }
    \cup { ChainTransformers(<<A, B>>) : A \in Chained, B \in Chained }
    \cup { ChainTransformers(<<A, B, C>>) : A \in Chained, B \in Chained, C \in Chained }
    \cup { ChainTransformers(<<ChainTransformers(<<A, B>>), C>>) :
                A \in Chained, B \in Chained, C \in Chained }
    \cup { ChainTransformers(<<A, ChainTransformers(<<B, C>>)>>) :
                A \in Chained, B \in Chained, C \in Chained }

\* the transformers handed to DebugWrapper
Wrapped ==
    { NoOpTransformer, ReplaceValuesTransformer, AddRowNoTransformer("S.no"),
      Faulting, PanicSafe(Faulting) }

\* the transformers called
Callees ==
    { NoOpTransformer, ReplaceValuesTransformer, AddRowNoTransformer("S.no"),
      AddChunkRowNoTransformer("S.no"), Faulting, PanicSafe(Faulting),
      PanicSafe(ReplaceValuesTransformer) }
    \cup { AddConstantColumnTransformer("col", "v", i) : i \in 0..MaxColumIndex }
    \cup { DebugWrapper(T) : T \in Wrapped }
    \cup Chains

InitCall ==
    /\ opts = << >>
    /\ processor = defaultProcessor
    /\ procNil = TRUE
    /\ newErr = "nil"
    /\ pc = "call"
    /\ Unstarted
    /\ ctor = [fn |-> "none"]
    /\ callee \in Callees
    /\ argCtx \in CallCtxs
    /\ argRow \in CallRows
    /\ result = NoResult

\* transformer(ctx, row)
CallTransformer ==
    /\ pc = "call"
    /\ result' = Run(callee, argCtx, argRow)
    /\ pc' = "returned"
    /\ UNCHANGED << cfgVars, procVars, chanVars, ctor, callee, argCtx, argRow >>

NextCall == CallTransformer

SpecCall == InitCall /\ [][NextCall]_vars

\* ------------------------------------------- New with any list of options
MaxOpts == 4

\* the options New is called with
OptChoices ==
    { WithReader, WithFileReader("missing"), WithWriterGenerator,
      SkipHeaders(TRUE), SkipHeaders(FALSE) }
    \cup { WithChunkSize(k) : k \in 0..MaxChunkSize }

\* New(opts...) not yet called: any options, in any order, repeated or not
InitOpts ==
    /\ opts \in UNION { [1..n -> OptChoices] : n \in 0..MaxOpts }
    /\ processor = defaultProcessor
    /\ procNil = TRUE
    /\ newErr = "nil"
    /\ pc = "new"
    /\ Unstarted
    /\ ctor = [fn |-> "New"]
    /\ callee = NoOpTransformer
    /\ argCtx = newCtx
    /\ argRow = NilRow
    /\ result = NoResult

NextOpts == New

SpecOpts == InitOpts /\ [][NextOpts]_vars

\* -------------------------- the pipeline with AddChunkRowNoTransformer
\* New with AddChunkRowNoTransformer("S.no") as the transformer, every chunk
\* size, headers on or off; the reader allocates every record it returns
ChunkNoOptLists ==
    { <<WithReader, WithWriterGenerator, WithChunkSize(k)>> \o sk
          \o <<WithTransformer("chunkrowno")>> :
        k \in 1..MaxChunkSize, sk \in SkipOpts }

InitChunkNo ==
    /\ opts \in ChunkNoOptLists
    /\ processor = defaultProcessor
    /\ procNil = TRUE
    /\ newErr = "nil"
    /\ pc = "new"
    /\ Unstarted
    /\ ctor = [fn |-> "New"]
    /\ callee = NoOpTransformer
    /\ argCtx = newCtx
    /\ argRow = NilRow
    /\ result = NoResult

NextChunkNo == Next

SpecChunkNo == InitChunkNo /\ [][NextChunkNo]_vars

\* ------------------------------------ a transformer called on a row slice
MaxSpare == 1

MaxRepeat == 2

\* the transformers of the package that change or extend the row
BuiltIns ==
    { ReplaceValuesTransformer, AddRowNoTransformer("S.no"),
      AddChunkRowNoTransformer("S.no") }
    \cup { AddConstantColumnTransformer("col", "v", i) : i \in 0..MaxColumIndex }

\* a transformer, a context and a row chosen; the slice is not yet made
InitSlice ==
    /\ opts = << >>
    /\ processor = defaultProcessor
    /\ procNil = TRUE
    /\ newErr = "nil"
    /\ pc = "make"
    /\ Unstarted
    /\ ctor = [fn |-> "none"]
    /\ callee \in BuiltIns
    /\ argCtx \in CallCtxs
    /\ argRow \in CallRows
    /\ result = NoResult

\* the caller's row: a slice of its backing array arr, which may be longer
\* than the row (a record array reused by a csv.Reader with ReuseRecord set)
MakeSlice ==
    /\ pc = "make"
    /\ \E spare \in 0..MaxSpare :
          arr' = argRow \o [i \in 1..spare |-> ""]
    /\ row' = argRow
    /\ pc' = "slice"
    /\ UNCHANGED << chanVars, callVars, cfgVars, currentRow, currentSplit, addHeaders,
                    needNewChunk, ctx, fileWriter, outputFile, err, header, headerShared,
                    input, sinks, genCalls, calls, fault >>

\* slice = append(slice, "") on a slice of n cells of array: a new array when
\* the slice fills its array, the same array otherwise
AppendsInPlace(array, n) == Len(array) > n

\* the caller's backing array once the transformer has run on its first n
\* cells with outcome o: ReplaceValuesTransformer assigns row[i];
\* addToSliceAtIndex appends, copies and assigns in the array when it has room
\* (its range check fails after the append; AddChunkRowNoTransformer divides
\* before it)
BackingAfter(T, o, array, n) ==
    CASE T.kind = "ReplaceValues" -> o.ret \o SubSeq(array, n + 1, Len(array))
      [] T.kind \in {"AddRowNo", "AddChunkRowNo", "AddConstantColumn"} ->
            IF ~AppendsInPlace(array, n) THEN array
            ELSE IF ~o.panic THEN o.ret \o SubSeq(array, n + 2, Len(array))
            ELSE IF T.kind = "AddConstantColumn" THEN [array EXCEPT ![n + 1] = ""]
            ELSE array
      [] OTHER -> array

\* transformer(ctx, row) on the caller's slice; calls keeps the outcomes
CallOnSlice ==
    /\ pc = "slice"
    /\ Len(calls) < MaxRepeat
    /\ LET o == Run(callee, argCtx, row)
           a == BackingAfter(callee, o, arr, Len(row))
       IN  /\ calls' = Append(calls, o)
           /\ arr' = a
           /\ row' = SubSeq(a, 1, Len(row))
    /\ UNCHANGED << chanVars, callVars, cfgVars, pc, currentRow, currentSplit, addHeaders,
                    needNewChunk, ctx, fileWriter, outputFile, err, header, headerShared,
                    input, sinks, genCalls, fault >>

NextSlice == MakeSlice \/ CallOnSlice

SpecSlice == InitSlice /\ [][NextSlice]_vars

\* ------------------------------------------------ the channel-based engine
MaxStreamRows == 12

MaxStreamErrs == 1

\* ch = make(chan streamElement, 10)
Capacity == 10

\* a nil rowTransformer
NilTransformer == [kind |-> "nil"]

\* New(inputFile, chunkSize, outputFileFormat, rowTransformer) of the
\* channel-based engine
LegacyNew(inputFile, chunkSize, outputFileFormat, rowTransformer) ==
    [InputFile |-> inputFile,
     ChunkSize |-> chunkSize,
     OutputFileFormat |-> outputFileFormat,
     RowTransformer |-> IF rowTransformer = NilTransformer THEN NoOpTransformer
                        ELSE rowTransformer,
     SkipHeaders |-> FALSE]

streamElement(rec, readErr) == [Row |-> rec, Err |-> readErr]

\* the k-th record of the input file
RecordAt(k) == <<"r" \o Itoa(k), "v">>

\* the elements of a sequence that carry a read error
ErrElements(es) == { i \in 1..Len(es) : es[i].Err # "nil" }

\* c.getCtx(chunkID, rowID, isHeader): a new context at every call
getCtx(chunkID, rowID, isHeader) ==
    setValue(setValue(setValue(setValue(newCtx, "CtxChunkSize", processor.ChunkSize),
                               "CtxChunkNum", chunkID),
                      "CtxRowNum", rowID),
             "CtxIsHeader", isHeader)

\* a Processor built by New, SkipHeaders set or left alone, Process not yet
\* called
InitLegacy ==
    /\ opts = << >>
    /\ processor \in
          { [LegacyNew(f, k, "out_%d.csv", NilTransformer) EXCEPT !.SkipHeaders = sk] :
              f \in {"ok", "missing"}, k \in 1..MaxChunkSize, sk \in BOOLEAN }
    /\ procNil = FALSE
    /\ newErr = "nil"
    /\ pc = "legacy"
    /\ Unstarted
    /\ ctor = [fn |-> "none"]
    /\ callee = NoOpTransformer
    /\ argCtx = newCtx
    /\ argRow = NilRow
    /\ result = NoResult

\* Process up to its loop: os.Open(c.InputFile), the locals, streamRows(inputFile)
LegacyProcess ==
    /\ pc = "legacy"
    /\ IF processor.InputFile = "missing"
       THEN /\ pc' = "done"
            /\ err' = "ErrOpenInput"
            /\ UNCHANGED << currentSplit, addHeaders, needNewChunk, producer >>
       ELSE /\ pc' = "range"
            /\ currentSplit' = 1
            /\ addHeaders' = ~processor.SkipHeaders
            /\ needNewChunk' = TRUE
            /\ producer' = "read"
            /\ UNCHANGED err
    /\ UNCHANGED << callVars, cfgVars, currentRow, ctx, row, fileWriter, outputFile, header,
                    headerShared, arr, input, sinks, genCalls, calls, fault, ch, chClosed,
                    received >>

\* ch <- streamElement{rec, err} goes through while the channel has room
CanSend_Always(q) == TRUE

CanSend(q) == Len(q) < Capacity

\* streamRows goroutine: r.Read() returns a record
StreamRecord ==
    /\ producer = "read"
    /\ Len(input) < MaxStreamRows
    /\ input' = Append(input,
                       streamElement(RecordAt(Len(input) - Cardinality(ErrElements(input)) + 1),
                                     "nil"))
    /\ producer' = "send"
    /\ UNCHANGED << callVars, cfgVars, pc, currentRow, currentSplit, addHeaders, needNewChunk,
                    ctx, row, fileWriter, outputFile, err, header, headerShared, arr, sinks,
                    genCalls, calls, fault, ch, chClosed, received >>

\* streamRows goroutine: r.Read() returns (nil, err) with err other than io.EOF
StreamError ==
    /\ producer = "read"
    /\ Len(input) < MaxStreamRows
    /\ Cardinality(ErrElements(input)) < MaxStreamErrs
    /\ input' = Append(input, streamElement(NilRow, "ErrRead"))
    /\ producer' = "send"
    /\ UNCHANGED << callVars, cfgVars, pc, currentRow, currentSplit, addHeaders, needNewChunk,
                    ctx, row, fileWriter, outputFile, err, header, headerShared, arr, sinks,
                    genCalls, calls, fault, ch, chClosed, received >>

\* streamRows goroutine: r.Read() returns io.EOF: break, then the deferred close(ch)
StreamEOF ==
    /\ producer = "read"
    /\ chClosed' = TRUE
    /\ producer' = "done"
    /\ UNCHANGED << callVars, cfgVars, pc, currentRow, currentSplit, addHeaders, needNewChunk,
                    ctx, row, fileWriter, outputFile, err, header, headerShared, arr, input,
                    sinks, genCalls, calls, fault, ch, received >>

\* streamRows goroutine: ch <- streamElement{rec, err}
StreamSend ==
    /\ producer = "send"
    /\ CanSend(ch)
    /\ ch' = Append(ch, input[Len(input)])
    /\ producer' = "read"
    /\ UNCHANGED << callVars, cfgVars, pc, currentRow, currentSplit, addHeaders, needNewChunk,
                    ctx, row, fileWriter, outputFile, err, header, headerShared, arr, input,
                    sinks, genCalls, calls, fault, chClosed, received >>

\* the locals of Process at the top of the loop body
Locals ==
    [rows |-> currentRow, split |-> currentSplit, addHeaders |-> addHeaders,
     needNewChunk |-> needNewChunk, fileWriter |-> fileWriter, outputFile |-> outputFile,
     header |-> header, sinks |-> sinks, genCalls |-> genCalls, calls |-> calls,
     err |-> "nil", at |-> "chunk"]

\* c.flushToFile(w): w.Flush() is called on sink fw
FlushToFile(s, fw) == [s EXCEPT ![fw].log = Append(@, "flush")]

\* outputFile.Close(), when outputFile is not nil
CloseFile(s, of) == IF of # 0 THEN [s EXCEPT ![of].log = Append(@, "close")] ELSE s

\* if needNewChunk: close the previous chunk file, createNewSplitFile(split)
NewChunkStep(l, openOk) ==
    IF ~l.needNewChunk THEN [l EXCEPT !.at = "header"]
    ELSE LET l1 == IF l.fileWriter # 0
                   THEN [l EXCEPT !.sinks = CloseFile(FlushToFile(@, l.fileWriter),
                                                      l.outputFile),
                                  !.split = @ + 1,
                                  !.addHeaders = ~processor.SkipHeaders]
                   ELSE l
             l2 == [l1 EXCEPT !.genCalls = Append(@, l1.split)]
         IN  IF openOk
             THEN [l2 EXCEPT !.sinks = Append(@, NewSink),
                             !.outputFile = Len(l2.sinks) + 1,
                             !.fileWriter = Len(l2.sinks) + 1,
                             !.at = "header"]
             ELSE [l2 EXCEPT !.outputFile = 0, !.err = "ErrOpen", !.at = "return"]

\* the record kept of a transformer call of the channel-based engine
LegacyCall(l, cx, r) ==
    [ctx |-> cx, row |-> r, sink |-> l.fileWriter, logs |-> 0, read |-> Len(received) + 1]

\* if addHeaders: transform and write the header; continue on the first row
HeaderStep(l, rec, ok) ==
    IF l.at # "header" THEN l
    ELSE IF ~l.addHeaders THEN [l EXCEPT !.at = "row"]
    ELSE LET hdr == IF l.header = NilRow THEN rec ELSE l.header
             cx  == getCtx(l.split, 0 - 1, TRUE)
             out == Run(processor.RowTransformer, cx, hdr).ret
             l1  == [l EXCEPT !.addHeaders = FALSE,
                              !.header = hdr,
                              !.calls = Append(@, LegacyCall(l, cx, hdr)),
                              !.sinks = Written(@, l.fileWriter, "header", out, ok)]
         IN  IF ~ok THEN [l1 EXCEPT !.err = "ErrWrite", !.at = "return"]
             ELSE IF l.rows = 0 THEN [l1 EXCEPT !.needNewChunk = FALSE, !.at = "continue"]
             ELSE [l1 EXCEPT !.at = "row"]

\* rows++, transform the row, write it, needNewChunk = (rows % c.ChunkSize) == 0
RowStep(l, rec, ok) ==
    IF l.at # "row" THEN l
    ELSE LET n   == l.rows + 1
             cx  == getCtx(l.split, n, FALSE)
             out == Run(processor.RowTransformer, cx, rec).ret
             l1  == [l EXCEPT !.rows = n,
                              !.calls = Append(@, LegacyCall(l, cx, rec)),
                              !.sinks = Written(@, l.fileWriter, "data", out, ok)]
         IN  IF ~ok THEN [l1 EXCEPT !.err = "ErrWrite", !.at = "return"]
             ELSE [l1 EXCEPT !.needNewChunk = NeedNewChunk(n, processor.ChunkSize),
                             !.at = "continue"]

\* the loop body on one element of the channel
LoopBody(element, openOk, headerOk, rowOk) ==
    IF element.Err # "nil" THEN [Locals EXCEPT !.err = element.Err, !.at = "return"]
    ELSE RowStep(HeaderStep(NewChunkStep(Locals, openOk), element.Row, headerOk),
                 element.Row, rowOk)

\* the sink operation that made the loop body return
LoopFault(l) ==
    IF l.err = "ErrOpen" THEN "open" ELSE IF l.err = "ErrWrite" THEN "write" ELSE fault

\* for element := range streamRows(inputFile): one element received and
\* handled; a return runs the deferred outputFile.Close()
LegacyIterate ==
    /\ pc = "range"
    /\ ch # << >>
    /\ \E openOk \in BOOLEAN, headerOk \in BOOLEAN, rowOk \in BOOLEAN :
          LET element == Head(ch)
              l       == LoopBody(element, openOk, headerOk, rowOk)
              returns == l.at = "return"
          IN  /\ ch' = Tail(ch)
              /\ received' = Append(received, element)
              /\ row' = element.Row
              /\ currentRow' = l.rows
              /\ currentSplit' = l.split
              /\ addHeaders' = l.addHeaders
              /\ needNewChunk' = l.needNewChunk
              /\ fileWriter' = l.fileWriter
              /\ outputFile' = l.outputFile
              /\ header' = l.header
              /\ genCalls' = l.genCalls
              /\ calls' = l.calls
              /\ sinks' = IF returns THEN CloseFile(l.sinks, l.outputFile) ELSE l.sinks
              /\ err' = l.err
              /\ fault' = LoopFault(l)
              /\ pc' = IF returns THEN "done" ELSE "range"
    /\ UNCHANGED << callVars, cfgVars, ctx, headerShared, arr, input, chClosed, producer >>

\* the flush after the loop is made when the last chunk is not full
FinalFlush(rows, size, fw) == (rows % size) # 0 /\ fw # 0

\* the channel is closed and empty: the loop ends, the last chunk is flushed,
\* Process returns and the deferred outputFile.Close() runs
LegacyRangeEnd ==
    /\ pc = "range"
    /\ ch = << >>
    /\ chClosed
    /\ \E flushOk \in BOOLEAN :
          LET flush  == FinalFlush(currentRow, processor.ChunkSize, fileWriter)
              failed == flush /\ ~flushOk
              s1     == IF flush THEN FlushToFile(sinks, fileWriter) ELSE sinks
          IN  /\ sinks' = CloseFile(s1, outputFile)
              /\ err' = IF failed THEN "ErrFlush" ELSE "nil"
              /\ fault' = IF failed THEN "flush" ELSE fault
    /\ pc' = "done"
    /\ UNCHANGED << callVars, cfgVars, currentRow, currentSplit, addHeaders, needNewChunk,
                    ctx, row, fileWriter, outputFile, header, headerShared, arr, input,
                    genCalls, calls, chanVars >>

\* the goroutine started by streamRows
Producer == StreamRecord \/ StreamError \/ StreamEOF \/ StreamSend

\* the goroutine that called Process
Consumer == LegacyProcess \/ LegacyIterate \/ LegacyRangeEnd

NextLegacy ==
    \/ LegacyProcess
    \/ StreamRecord
    \/ StreamError
    \/ StreamEOF
    \/ StreamSend
    \/ LegacyIterate
    \/ LegacyRangeEnd

\* the Go scheduler runs each goroutine that can take a step
SpecLegacy ==
    InitLegacy /\ [][NextLegacy]_vars /\ WF_vars(Producer) /\ WF_vars(Consumer)

\* what the context handed to the transformer at call i reports when read
\* now: process makes one csvCtx before the loop and hands that same pointer
\* to every call
CtxNow(i) == ctx

\* ------------------------------------------------------- reading the state
Succeeded == pc = "done" /\ err = "nil"

Running == pc \notin {"new", "invalid", "ready"}

HeadersOn == ~processor.skipHeaders

NoReadError == \A i \in 1..Len(input) : input[i].err = "nil"

InputRows == [i \in 1..Len(input) |-> input[i].row]

\* the input rows that are data: all of them, or all but the first
InputDataRows == IF HeadersOn /\ Len(input) > 0 THEN Tail(InputRows) ELSE InputRows

IsData(x) == x.kind = "data"

IsHeaderRow(x) == x.kind = "header"

DataRowsOf(s) == SelectSeq(s.rows, IsData)

HeaderRowsOf(s) == SelectSeq(s.rows, IsHeaderRow)

Ceil(n, k) == (n + k - 1) \div k

RECURSIVE ConcatData(_)
\* the data records of the sinks, chunk after chunk
ConcatData(ss) ==
    IF ss = << >> THEN << >>
    ELSE [i \in 1..Len(DataRowsOf(Head(ss))) |-> DataRowsOf(Head(ss))[i].row]
         \o ConcatData(Tail(ss))

\* chunk sizes as claimed: k data rows in every chunk but the last, the
\* remainder (or k) in the last
ChunksSplit(n, k) ==
    /\ Len(sinks) = Ceil(n, k)
    /\ \A i \in 1..Len(sinks) :
          Len(DataRowsOf(sinks[i])) =
              IF i < Len(sinks) THEN k ELSE IF n % k = 0 THEN k ELSE n % k

\* ------------------------------------------------------------------ claims

\* C1 as stated: with headers on, a successful run over a header row and
\* n >= 0 data rows leaves ceil(n / k) chunks, k data rows in each but the
\* last, n mod k (or k) in the last.
C1_ChunkCountAnyN ==
    (Succeeded /\ HeadersOn /\ NoReadError /\ Len(input) >= 1)
        => ChunksSplit(Len(input) - 1, processor.chunkSize)

\* C1 amended: the count and sizes hold for n >= 1 data rows; a header-only
\* input (n = 0) leaves exactly one chunk, holding the header and no data row.
C1_ChunkCount ==
    (Succeeded /\ HeadersOn /\ NoReadError /\ Len(input) >= 1)
        => IF Len(input) = 1
           THEN /\ Len(sinks) = 1
                /\ Len(DataRowsOf(sinks[1])) = 0
                /\ Len(HeaderRowsOf(sinks[1])) = 1
           ELSE ChunksSplit(Len(input) - 1, processor.chunkSize)

C1_Witness ==
    /\ Succeeded /\ HeadersOn /\ NoReadError
    /\ Len(input) = 4 /\ processor.chunkSize = 2
    /\ Len(sinks) = 2
    /\ Len(DataRowsOf(sinks[2])) = 1

\* C2: with SkipHeaders(true) no transformer call has isHeader = true and no
\* chunk holds a header row; a successful run over n rows leaves ceil(n / k)
\* chunks, and the first input row is handed to the transformer and written
\* as the first data row of chunk 1.
C2_NoHeaders ==
    (Running /\ ~HeadersOn) =>
        /\ \A i \in 1..Len(calls) : calls[i].ctx["CtxIsHeader"] = FALSE
        /\ \A i \in 1..Len(sinks) : HeaderRowsOf(sinks[i]) = << >>
        /\ (Succeeded /\ NoReadError) =>
              /\ ChunksSplit(Len(input), processor.chunkSize)
              /\ Len(input) >= 1 =>
                    /\ calls[1].row = input[1].row
                    /\ sinks[1].rows[1].kind = "data"
                    /\ processor.rowTransformer = "noop" =>
                          sinks[1].rows[1].row = input[1].row

C2_Witness ==
    /\ Succeeded /\ ~HeadersOn /\ NoReadError
    /\ Len(input) = 3 /\ processor.chunkSize = 2
    /\ Len(sinks) = 2
    /\ Len(calls) = 3

\* the data rows the input holds under the configured header policy
DataRowCount == Len(InputDataRows)

\* one chunk holding every data row, after one header row when headers are on
OneChunk ==
    /\ Len(sinks) = 1
    /\ genCalls = <<1>>
    /\ Len(DataRowsOf(sinks[1])) = DataRowCount
    /\ Len(HeaderRowsOf(sinks[1])) = (IF HeadersOn THEN 1 ELSE 0)
    /\ HeadersOn => sinks[1].rows[1].kind = "header"
    /\ processor.rowTransformer = "noop" => ConcatData(sinks) = InputDataRows

\* C3 as stated: for every input, the empty one included, and k >= the number
\* of data rows, exactly one chunk is produced and the generator is called once.
C3_OneChunkAnyInput ==
    (Succeeded /\ NoReadError /\ processor.chunkSize >= DataRowCount) => OneChunk

\* C3 amended: that holds for every non-empty input; on the empty input no
\* chunk is produced and the generator is never called.
C3_OneChunk ==
    (Succeeded /\ NoReadError /\ processor.chunkSize >= DataRowCount) =>
        IF input = << >> THEN sinks = << >> /\ genCalls = << >> ELSE OneChunk

C3_Witness ==
    /\ Succeeded /\ NoReadError /\ HeadersOn
    /\ Len(input) = 3 /\ processor.chunkSize = 2
    /\ Len(sinks) = 1
    /\ Len(sinks[1].rows) = 3

\* C4: after a successful run with the identity transformer the data rows of
\* chunks 1, 2, 3, ... in order are exactly the input data rows, in order.
C4_Contiguous ==
    (Succeeded /\ NoReadError /\ processor.rowTransformer = "noop")
        => ConcatData(sinks) = InputDataRows

C4_Witness ==
    /\ Succeeded /\ NoReadError /\ processor.rowTransformer = "noop" /\ HeadersOn
    /\ processor.chunkSize = 1
    /\ Len(input) = 4
    /\ Len(sinks) = 3
    /\ input[2].row # input[3].row

\* C5 as stated (here for the identity transformer and runs in which no sink
\* operation fails): with headers on, every header call of the transformer
\* gets a row equal to the first row read, and the first row of every chunk
\* is that header.
C5_HeaderIsFirstRow ==
    (Running /\ HeadersOn /\ NoReadError /\ fault = "none"
             /\ processor.rowTransformer = "noop") =>
        /\ \A i \in 1..Len(calls) :
              calls[i].ctx["CtxIsHeader"] = TRUE => calls[i].row = input[1].row
        /\ \A i \in 1..Len(sinks) :
              Len(sinks[i].rows) >= 1 =>
                  sinks[i].rows[1] = [kind |-> "header", row |-> input[1].row]

\* C6 as stated: when a Read fails with an error other than io.EOF, that
\* read is the last one and Process returns its error (runs in which a sink
\* failed as well are left aside).
C6_ReadErrorAborts ==
    (pc = "done" /\ fault = "none") =>
        \A i \in 1..Len(input) :
            input[i].err # "nil" => (err = input[i].err /\ i = Len(input))

\* the error Process returns for a failed sink operation
ErrOf(f) ==
    CASE f = "open"  -> "ErrGenerator"
      [] f = "write" -> "ErrWrite"
      [] f = "flush" -> "ErrFlush"
      [] f = "close" -> "ErrClose"
      [] OTHER       -> "nil"

\* C7: once a sink operation (open, write, flush, close) has failed, Process
\* has returned the error of that operation, and from then on nothing is
\* read, no transformer is called and no chunk is requested.
C7_SinkFailureFatal ==
    /\ [](fault # "none" => (pc = "done" /\ err = ErrOf(fault)))
    /\ [][fault # "none" => UNCHANGED << input, calls, genCalls, sinks >>]_vars

C7_Witness ==
    /\ fault = "flush"
    /\ pc = "done"
    /\ Len(input) = 3
    /\ Len(sinks) = 1
    /\ Len(sinks[1].rows) = 2

Has(log, op) == \E j \in 1..Len(log) : log[j] = op

\* C8 as stated: when Process has returned, Flush and Close have both been
\* called on every destination the generator returned.
C8_AllFlushedAndClosed ==
    pc = "done" =>
        \A i \in 1..Len(sinks) : Has(sinks[i].log, "flush") /\ Has(sinks[i].log, "close")

\* a destination is open from the generator's return until Close is called
IsOpen(s) == ~Has(s.log, "close")

\* C9: at most one destination is open at any time; the generator is called
\* with 1, 2, 3, ... in order; and when it is called for chunk i+1 the
\* destination of chunk i has been flushed and then closed, and nothing is
\* done to it afterwards.
C9_OneOpenInOrder ==
    /\ Cardinality({i \in 1..Len(sinks) : IsOpen(sinks[i])}) <= 1
    /\ \A i \in 1..Len(genCalls) : genCalls[i] = i
    /\ \A i \in 1..(Len(genCalls) - 1) :
          /\ i <= Len(sinks)
          /\ Len(sinks[i].log) >= 2
          /\ SubSeq(sinks[i].log, Len(sinks[i].log) - 1, Len(sinks[i].log))
                = <<"flush", "close">>
          /\ \A j \in 1..(Len(sinks[i].log) - 2) : sinks[i].log[j] = "write"

C9_Witness ==
    /\ Len(genCalls) = 3
    /\ Len(sinks) = 3
    /\ pc = "row"
    /\ IsOpen(sinks[3])
    /\ ~IsOpen(sinks[1]) /\ ~IsOpen(sinks[2])

\* what the option list configures
OptFailed == \E i \in 1..Len(opts) : opts[i] = WithFileReader("missing")

HasReader ==
    \E i \in 1..Len(opts) : opts[i].name = "WithReader" \/ opts[i] = WithFileReader("ok")

HasGenerator == \E i \in 1..Len(opts) : opts[i].name = "WithWriterGenerator"

SizeOpts == {i \in 1..Len(opts) : opts[i].name = "WithChunkSize"}

ConfiguredSize ==
    IF SizeOpts = {} THEN 0
    ELSE opts[CHOOSE i \in SizeOpts : \A j \in SizeOpts : j <= i].size

Started == input # << >> \/ genCalls # << >> \/ sinks # << >> \/ calls # << >>

\* C11: an invalid configuration never starts the pipeline.  When New returns
\* an error the Processor it returns is nil, and no row is read and the
\* generator is not invoked; every Processor New does return has a reader, a
\* generator and a chunk size of at least 1, so Process never takes a
\* remainder by zero or by a negative number.
C11_InvalidNeverStarts ==
    /\ (pc # "new" /\ newErr # "nil") => (procNil /\ pc = "invalid" /\ ~Started)
    /\ (pc # "new" /\ newErr = "nil") => ~procNil
    /\ ~procNil =>
          /\ processor.reader # "nil"
          /\ processor.outputChunkGenerator # "nil"
          /\ processor.chunkSize >= 1
    /\ Started => (~procNil /\ processor.chunkSize >= 1)

\* New has refused a configuration whose only defect is its chunk size
C11_Witness ==
    /\ pc = "invalid"
    /\ newErr = "ErrInvalidChunkSize"
    /\ procNil
    /\ ~Started

\* ---------------------------------------------------------------------- C12
\* Process runs with a PanicSafe-wrapped transformer that faults on every row
WrappedFaulting == ~procNil /\ Named(processor.rowTransformer) = PanicSafe(Faulting)

\* C12 as stated: a PanicSafe-wrapped transformer that faults passes the row
\* through: the wrapped call returns the row it was given, so in a pipeline
\* whose wrapped transformer always faults every input row reaches the
\* output unchanged.
C12_FaultPassesThrough ==
    (WrappedFaulting /\ Succeeded /\ NoReadError)
        => ConcatData(sinks) = InputDataRows

\* ---------------------------------------------------------------------- C13
\* C13: a fault inside a PanicSafe-wrapped transformer never propagates to
\* the caller and never ends the pipeline: each wrapped call returns after
\* logging once, Process goes on with the next row, and the run ends with
\* as many data rows written as the identity transformer would write.
C13_FaultIsContained ==
    (WrappedFaulting /\ Running) =>
        /\ pc # "panicked"
        /\ \A i \in 1..Len(calls) : calls[i].logs = 1
        /\ (Succeeded /\ NoReadError) =>
              /\ currentRow = DataRowCount
              /\ Len(ConcatData(sinks)) = DataRowCount

\* a successful run of two chunks in which every call faulted and was logged
C13_Witness ==
    /\ WrappedFaulting
    /\ Succeeded
    /\ NoReadError
    /\ DataRowCount >= 2
    /\ Len(sinks) >= 2
    /\ Len(calls) >= 3

\* ---------------------------------------------------------------------- C14
\* the context marks a header row
IsHeaderCall == BoolValue(argCtx, "CtxIsHeader")

\* C14: AddChunkRowNoTransformer called for a non-header row with row number
\* r >= 1 and chunk size k >= 1 returns the row with the decimal text of
\* ((r - 1) mod k) + 1 inserted at index 0 (r = 100, k = 100 gives "100";
\* r = 202, k = 100 gives "2"); called for the header row it inserts the
\* column name instead.
C14_ChunkRowNo ==
    (pc = "returned" /\ callee = AddChunkRowNoTransformer("S.no")) =>
        LET r == IntValue(argCtx, "CtxRowNum")
            k == IntValue(argCtx, "CtxChunkSize")
        IN  /\ IsHeaderCall =>
                  (~result.panic /\ result.ret = <<"S.no">> \o argRow)
            /\ (~IsHeaderCall /\ r >= 1 /\ k >= 1) =>
                  /\ ~result.panic
                  /\ result.ret = <<Itoa(((r - 1) % k) + 1)>> \o argRow
                  /\ (r = 100 /\ k = 100) => result.ret[1] = "100"
                  /\ (r = 202 /\ k = 100) => result.ret[1] = "2"
                  /\ (r = 5 /\ k = 2) => result.ret[1] = "1"

\* the call for the last row of a full chunk has returned
C14_Witness ==
    /\ pc = "returned"
    /\ callee = AddChunkRowNoTransformer("S.no")
    /\ ~IsHeaderCall
    /\ IntValue(argCtx, "CtxRowNum") = 100
    /\ IntValue(argCtx, "CtxChunkSize") = 100
    /\ result.ret = <<"100", "a", "b">>

\* ---------------------------------------------------------------------- C15
RECURSIVE Flatten(_)
\* the transformers of a chain in calling order, inner chains spliced in
Flatten(T) ==
    IF T.kind # "Chain" THEN <<T>>
    ELSE IF T.transformers = << >> THEN << >>
    ELSE Flatten(Head(T.transformers)) \o Flatten(ChainTransformers(Tail(T.transformers)))

RECURSIVE ApplyAll(_, _, _)
\* ts[n](... ts[2](ts[1](r))): [ret, panic]
ApplyAll(ts, cx, r) ==
    IF ts = << >> THEN [ret |-> r, panic |-> FALSE]
    ELSE LET o == Run(Head(ts), cx, r)
         IN  IF o.panic THEN [ret |-> NilRow, panic |-> TRUE]
             ELSE ApplyAll(Tail(ts), cx, o.ret)

\* C15: ChainTransformers keeps the order and is associative.  The chain of
\* A and B returns B(A(row)); the chains ((A, B), C), (A, (B, C)) and
\* (A, B, C) return the same row; the empty chain returns the row it was
\* given; every transformer of the chain is handed the context of the call.
C15_Chain ==
    (pc = "returned" /\ callee.kind = "Chain") =>
        LET ts   == callee.transformers
            flat == ApplyAll(Flatten(callee), argCtx, argRow)
        IN  /\ result.panic = flat.panic
            /\ result.ret = flat.ret
            /\ ts = << >> => (result.ret = argRow /\ ~result.panic)
            /\ (Len(ts) = 2 /\ ~result.panic) =>
                  result.ret = Run(ts[2], argCtx, Run(ts[1], argCtx, argRow).ret).ret
            /\ \A i \in 1..Len(result.seen) : result.seen[i] = argCtx
            /\ ~result.panic => Len(result.seen) = Len(Flatten(callee))

\* a chain nested on the left has returned a row that went through all three
\* of its transformers, each of which changed it
C15_Witness ==
    /\ pc = "returned"
    /\ callee = ChainTransformers(<<ChainTransformers(<<AddRowNoTransformer("S.no"),
                                       ReplaceValuesTransformer>>),
                                   AddConstantColumnTransformer("col", "v", 1)>>)
    /\ argRow = <<"a", "b">>
    /\ result.ret = <<"2", "v", "b", "c">>

C20_AddConstantColumn ==
    (/\ pc = "returned"
     /\ callee.kind = "AddConstantColumn"
     /\ 0 <= callee.columIndex
     /\ callee.columIndex <= Len(argRow)) =>
        LET i == callee.columIndex
        IN  /\ ~result.panic
            /\ Len(result.ret) = Len(argRow) + 1
            /\ result.ret[i + 1] = IF IsHeaderCall THEN callee.columnName ELSE callee.val
            /\ \A j \in 1..i : result.ret[j] = argRow[j]
            /\ \A j \in (i + 1)..Len(argRow) : result.ret[j + 1] = argRow[j]

\* the column went into the middle of a data row
C20_Witness ==
    /\ pc = "returned"
    /\ callee = AddConstantColumnTransformer("col", "v", 1)
    /\ ~IsHeaderCall
    /\ argRow = <<"c", "a", "b">>
    /\ result.ret = <<"c", "v", "a", "b">>

\* ---------------------------------------------------------------------- C16
\* call i of the transformer is for a data row
IsDataCall(i) == calls[i].ctx["CtxIsHeader"] = FALSE

\* how many of the calls 1..i are for data rows
DataCallsUpTo(i) == Cardinality({m \in 1..i : IsDataCall(m)})

\* C16: the context a transformer sees when called.  For a header emission
\* CtxIsHeader is true and CtxRowNum is -1; for the j-th data row of the
\* stream CtxIsHeader is false and CtxRowNum is j, counted from 1 over the
\* whole input and not per chunk; in both cases CtxChunkNum is the ordinal of
\* the chunk open at the time, the one the result is written to, and
\* CtxChunkSize is the configured chunk size.
C16_CallContext ==
    /\ \A i \in 1..Len(calls) :
          LET c == calls[i]
              j == DataCallsUpTo(i)
          IN  /\ c.ctx["CtxChunkSize"] = processor.chunkSize
              /\ c.sink \in 1..Len(genCalls)
              /\ c.ctx["CtxChunkNum"] = genCalls[c.sink]
              /\ i > 1 => calls[i - 1].sink <= c.sink
              /\ IF IsDataCall(i)
                 THEN /\ c.ctx["CtxRowNum"] = j
                      /\ c.read = IF HeadersOn THEN j + 1 ELSE j
                 ELSE /\ c.ctx["CtxIsHeader"] = TRUE
                      /\ c.ctx["CtxRowNum"] = -1
                      /\ HeadersOn
    /\ (pc = "read" /\ calls # << >>) =>
          /\ calls[Len(calls)].sink = Len(sinks)
          /\ IsOpen(sinks[Len(sinks)])

\* the third data row went into the second chunk, after that chunk's header
C16_Witness ==
    /\ Succeeded
    /\ HeadersOn
    /\ processor.chunkSize = 2
    /\ Len(calls) = 5
    /\ calls[4].ctx = [CtxChunkSize |-> 2, CtxChunkNum |-> 2, CtxIsHeader |-> TRUE,
                       CtxRowNum |-> -1]
    /\ calls[5].ctx = [CtxChunkSize |-> 2, CtxChunkNum |-> 2, CtxIsHeader |-> FALSE,
                       CtxRowNum |-> 3]

\* ---------------------------------------------------------------------- C17
\* the options hold an empty output file format
EmptyFormat == \E i \in 1..Len(opts) : opts[i] = WithOutputFileFormat("")

\* C17 as stated: New, and NewFileReader, given an empty output file format
\* return an error at construction, also when the row source and the chunk
\* size are valid.
C17_EmptyFormatRejected ==
    (pc # "new" /\ EmptyFormat) => (newErr # "nil" /\ procNil)

\* ---------------------------------------------------------------------- C18
\* C18 as stated: NewBufferReader returns an error when the input reader is
\* nil and when the output writer is nil; with both non-nil it returns a
\* Processor and no error.
C18_NilBufferRejected ==
    (pc # "new" /\ ctor.fn = "NewBufferReader") =>
        IF ctor.inputReader = "nil" \/ ctor.outputWriter = "nil"
        THEN newErr # "nil" /\ procNil
        ELSE newErr = "nil" /\ ~procNil

\* ---------------------------------------------------------------------- C21
\* the context carries the header flag, set
HeaderFlagSet == "CtxIsHeader" \in DOMAIN argCtx /\ argCtx["CtxIsHeader"] = TRUE

\* C21: AddRowNoTransformer(name) puts at index 0 the decimal text of the
\* overall row number for a data row, also when the context has no header
\* flag, and the column name for the header row; the fields of the row follow
\* in their order.
C21_AddRowNo ==
    (pc = "returned" /\ callee = AddRowNoTransformer("S.no")) =>
        LET r == IF "CtxRowNum" \in DOMAIN argCtx THEN argCtx["CtxRowNum"] ELSE 0
        IN  /\ ~result.panic
            /\ Len(result.ret) = Len(argRow) + 1
            /\ \A j \in 1..Len(argRow) : result.ret[j + 1] = argRow[j]
            /\ result.ret[1] = IF HeaderFlagSet THEN "S.no" ELSE Itoa(r)
            /\ (~HeaderFlagSet /\ r = 100) => result.ret[1] = "100"
            /\ (~HeaderFlagSet /\ r = 3) => result.ret[1] = "3"

\* a data row numbered under a context that has no header flag
C21_Witness ==
    /\ pc = "returned"
    /\ callee = AddRowNoTransformer("S.no")
    /\ "CtxIsHeader" \notin DOMAIN argCtx
    /\ argRow = <<"c", "a", "b">>
    /\ result.ret = <<"202", "c", "a", "b">>

\* ---------------------------------------------------------------------- C22
\* C22: a call of DebugWrapper whose wrapped transformer returns calls the
\* logger exactly twice, first with the row it was given and last with the
\* row returned, calls the wrapped transformer exactly once in between, and
\* returns what the wrapped transformer returned.
C22_DebugWrapper ==
    (/\ pc = "returned"
     /\ callee.kind = "DebugWrapper"
     /\ ~Run(callee.transformer, argCtx, argRow).panic) =>
        LET inner == Run(callee.transformer, argCtx, argRow)
            n     == Len(result.trace)
            logAt == {i \in 1..n : result.trace[i].ev = "log"}
        IN  /\ ~result.panic
            /\ result.ret = inner.ret
            /\ logAt = {1, n}
            /\ n >= 3
            /\ result.trace[1] = Event("log", argRow)
            /\ result.trace[n] = Event("log", inner.ret)
            /\ SubSeq(result.trace, 2, n - 1) = inner.trace
            /\ result.logs = inner.logs + 2

\* the wrapped transformer changed the row between the two log calls
C22_Witness ==
    /\ pc = "returned"
    /\ callee = DebugWrapper(ReplaceValuesTransformer)
    /\ argRow = <<"a", "b">>
    /\ result.ret = <<"b", "c">>
    /\ result.trace = << Event("log", <<"a", "b">>), Event("call", <<"b", "c">>),
                         Event("log", <<"b", "c">>) >>

\* ---------------------------------------------------------------------- C23
\* the format has no verb / exactly one verb, and that one is %d
Verbs(format) == SelectSeq(ParseFormat(format), LAMBDA t : t.tok = "verb")

RECURSIVE LiteralOf(_)
\* the text a format without verbs stands for
LiteralOf(toks) == IF toks = << >> THEN "" ELSE Head(toks).text \o LiteralOf(Tail(toks))

\* C23: a naming template without a placeholder resolves every chunk ordinal
\* to one and the same name, the literal text of the template, the marker fmt
\* appends for the unused operand being cut off; a template with one integer
\* placeholder resolves distinct chunk ordinals to distinct names.
C23_FileNames ==
    pc = "generator" =>
        LET f == callee.outputFileFormat
        IN  /\ Verbs(f) = << >> =>
                  \A i \in 1..Len(result) : result[i] = LiteralOf(ParseFormat(f))
            /\ Verbs(f) = <<Verb("d")>> =>
                  \A i, j \in 1..Len(result) :
                      (genCalls[i] # genCalls[j]) => (result[i] # result[j])
            /\ f = "out.csv" => \A i \in 1..Len(result) : result[i] = "out.csv"

\* two different ordinals resolved under a template without a placeholder
C23_Witness ==
    /\ pc = "generator"
    /\ callee = splitFileGenerator("out.csv")
    /\ genCalls = <<1, 2>>
    /\ result = <<"out.csv", "out.csv">>

\* three different ordinals resolved under a template with the placeholder
C23_WitnessDistinct ==
    /\ pc = "generator"
    /\ callee = splitFileGenerator("out_%d.csv")
    /\ genCalls = <<1, 2, 4>>
    /\ result = <<"out_1.csv", "out_2.csv", "out_4.csv">>

\* ---------------------------------------------------------------------- C24
\* the calls of the transformer made for header emissions
HeaderCalls == {i \in 1..Len(calls) : ~IsDataCall(i)}

\* C24 as stated: the stored header row is immutable once captured: whatever
\* the transformer, the row handed to it at the header emission of chunk
\* j >= 2 equals, field for field, the row handed to it at the header
\* emission of chunk 1.  Stated for a reader that allocates every record and
\* never fails and for sinks that never fail, so that the reader itself
\* leaves the stored header alone.
C24_HeaderImmutable ==
    (processor.reader = "plain" /\ NoReadError /\ fault = "none") =>
        \A i \in HeaderCalls, j \in HeaderCalls : calls[i].row = calls[j].row

\* ---------------------------------------------------------------------- C25
\* C25 as stated: the context is made fresh for each row or header emission
\* and never changed afterwards: a context handed to the transformer for one
\* row still reports that row's chunk number, row number and header flag
\* after later rows have been processed.
C25_ContextKept ==
    \A i \in 1..Len(calls) :
        \A key \in {"CtxChunkNum", "CtxRowNum", "CtxIsHeader"} :
            CtxNow(i)[key] = calls[i].ctx[key]

\* ---------------------------------------------------------------------- C26
\* C26: with headers on, the first input row is written once, as the header
\* of chunk 1, and is neither written nor counted as data; in every later
\* chunk the row that opened the chunk is written as data in the same step,
\* right after the header written again.  So the total at exhaustion is the
\* number of data rows written in all chunks: the input rows less one with
\* headers on and a non-empty input, the input rows with headers off.
C26_FirstRowIsHeader ==
    /\ \A i \in HeaderCalls :
          IF calls[i].sink = 1
          THEN /\ i = 1
               /\ calls[i].read = 1
               /\ \A m \in 1..Len(calls) : IsDataCall(m) => calls[m].read > 1
          ELSE i < Len(calls) =>
                  /\ IsDataCall(i + 1)
                  /\ calls[i + 1].read = calls[i].read
                  /\ calls[i + 1].sink = calls[i].sink
    /\ (pc \in {"read", "final"} /\ fault = "none") =>
          \A j \in 1..Len(sinks) :
              /\ Len(HeaderRowsOf(sinks[j])) = IF HeadersOn THEN 1 ELSE 0
              /\ HeadersOn => sinks[j].rows[1].kind = "header"
              /\ (HeadersOn /\ j >= 2) =>
                    (Len(sinks[j].rows) >= 2 /\ sinks[j].rows[2].kind = "data")
    /\ Succeeded =>
          /\ currentRow = Len(ConcatData(sinks))
          /\ currentRow = IF HeadersOn /\ input # << >>
                          THEN Len(input) - 1 ELSE Len(input)

\* a run over a header and three rows into two chunks has ended
C26_Witness ==
    /\ Succeeded
    /\ HeadersOn
    /\ Len(input) = 4
    /\ currentRow = 3
    /\ Len(sinks) = 2
    /\ Len(sinks[2].rows) = 2

\* ---------------------------------------------------------------------- C27
\* the log of a destination that took writes, then one flush, then one close
WrittenFlushedClosed(log) ==
    /\ Len(log) >= 2
    /\ log[Len(log) - 1] = "flush"
    /\ log[Len(log)] = "close"
    /\ \A j \in 1..(Len(log) - 2) : log[j] = "write"

\* C27: when Process returns without error every destination the generator
\* returned has been flushed exactly once and closed exactly once, the flush
\* before the close, and no row was written to it after the flush; on an
\* empty input no destination is opened and Process returns without error.
C27_FlushedThenClosed ==
    /\ Succeeded => \A i \in 1..Len(sinks) : WrittenFlushedClosed(sinks[i].log)
    /\ Succeeded => Len(sinks) = Len(genCalls)
    /\ (pc = "done" /\ input = << >>) =>
          (err = "nil" /\ sinks = << >> /\ genCalls = << >>)

\* a successful run that opened two destinations
C27_Witness ==
    /\ Succeeded
    /\ Len(sinks) = 2
    /\ sinks[1].log = <<"write", "write", "flush", "close">>
    /\ sinks[2].log = <<"write", "write", "flush", "close">>

\* ---------------------------------------------------------------------- C29
\* C29 as stated: Process terminates: for every Row Source that after
\* finitely many rows signals end of stream or a failure, also a failure
\* returned again by every later Read, Process returns after finitely many
\* steps.
C29_Terminates == (pc = "ready") ~> (pc = "done")

\* what stands behind it: against a source that has failed, with sinks that
\* work, Process is never past its loop
C29_LoopsWhileFailed ==
    (SourceFailed /\ fault = "none") => pc \notin {"final", "done"}

\* ---------------------------------------------------------------------- C28
\* the loop of the channel-based Process ended at the closed, empty channel
\* and Process returned nil
LegacyExhausted == pc = "done" /\ err = "nil" /\ producer = "done" /\ received = input

\* C28 as stated: in the channel-based Process, when the Row Source is
\* exhausted the writer of the last open chunk has been flushed by the time
\* Process returns, whatever the input: also when the number of data rows is a
\* multiple of ChunkSize and when the input holds the header row only.
C28_LastChunkFlushed ==
    (LegacyExhausted /\ fileWriter # 0) =>
        \E i \in 1..Len(sinks[fileWriter].log) : sinks[fileWriter].log[i] = "flush"

\* the same for inputs whose last chunk is left part full
C28_PartChunkFlushed ==
    (LegacyExhausted /\ fileWriter # 0 /\ (currentRow % processor.ChunkSize) # 0) =>
        \E i \in 1..Len(sinks[fileWriter].log) : sinks[fileWriter].log[i] = "flush"

\* ---------------------------------------------------------------------- C30
\* the element the goroutine has read and not yet sent
InHand == IF producer = "send" THEN <<input[Len(input)]>> ELSE << >>

\* C30: the channel between streamRows and the loop of Process never holds
\* more than 10 elements; what was received, then what the channel holds, then
\* the element in the goroutine's hand is exactly what was read, in the order
\* read, so nothing is lost, repeated or reordered; the channel is closed by
\* the goroutine only, after io.EOF and after every element read was sent; and
\* when the loop has ended at the closed channel every element read has been
\* received.
C30_HandOffQueue ==
    /\ Len(ch) <= Capacity
    /\ received \o ch \o InHand = input
    /\ \A i, j \in 1..Len(input) :
          (i # j /\ input[i].Err = "nil" /\ input[j].Err = "nil") => input[i].Row # input[j].Row
    /\ chClosed <=> producer = "done"
    /\ chClosed => received \o ch = input
    /\ (pc = "done" /\ err \in {"nil", "ErrFlush"}) => (chClosed /\ received = input)

\* the channel is full, the goroutine waits to send the next element, and the
\* loop has received some
C30_Witness == Len(ch) = Capacity /\ producer = "send" /\ received # << >>

\* the loop has ended at the closed channel after more elements than the
\* channel holds
C30_WitnessEnded == pc = "done" /\ err = "nil" /\ Len(received) > Capacity

\* the loop of Process, once entered, ends
C30_LoopEnds == (pc = "range") ~> (pc = "done")

\* ---------------------------------------------------------------------- C31
\* C31 as stated: the goroutine started by streamRows ends in every
\* execution, also when Process returns early on an error while more than 10
\* rows remain unread; it is never left waiting on a send for good.
C31_ProducerEnds == (producer = "read") ~> (producer = "done")

\* the state it is left in: Process has returned, the channel is full, and the
\* goroutine waits to send an element nobody will receive
C31_NeverStuckOnSend == ~(pc = "done" /\ producer = "send" /\ Len(ch) = Capacity)

\* while Process is in its loop the goroutine is never stuck: it ends whenever
\* the loop runs to the closed channel
C31_EndsWhenLoopCompletes == (pc = "done" /\ err \in {"nil", "ErrFlush"}) => producer = "done"

\* ---------------------------------------------------------------------- C32
\* Process runs with a transformer that faults on every row and is not wrapped
UnwrappedFaulting == ~procNil /\ Named(processor.rowTransformer) = Faulting

\* C32 as stated: a fault of a transformer that is not wrapped by PanicSafe is
\* fatal and handed on like a sink error: the pipeline stops at that row and
\* Process returns the fault to its caller as the one error of the run.
C32_FaultReturnedAsError ==
    (UnwrappedFaulting /\ calls # << >>) => (pc = "done" /\ err # "nil")

\* what the code does: the pipeline stops at the first call, nothing is
\* written for it, and Process is left by the panic, without a return value
C32_HaltsAtFault ==
    (UnwrappedFaulting /\ calls # << >>) =>
        /\ pc = "panicked"
        /\ err = "nil"
        /\ Len(calls) = 1
        /\ \A i \in 1..Len(sinks) : sinks[i].rows = << >>

\* ---------------------------------------------------------------------- C33
\* C33 as stated: the transformers of the package leave their input alone:
\* once ReplaceValuesTransformer, AddRowNoTransformer, AddChunkRowNoTransformer
\* or AddConstantColumnTransformer has returned, the caller's row has the
\* length and the fields it had, and a second call with the same context on
\* that row gives what the first call gave.
C33_InputUnchanged ==
    (pc = "slice" /\ calls # << >>) =>
        /\ row = argRow
        /\ Len(calls) = 2 => calls[2].ret = calls[1].ret

\* it holds of the inserting transformers when the row fills its array
C33_UnchangedWhenCopied ==
    (pc = "slice" /\ calls # << >> /\ callee # ReplaceValuesTransformer
     /\ Len(arr) = Len(argRow)) =>
        /\ row = argRow
        /\ Len(calls) = 2 => calls[2].ret = calls[1].ret

\* an inserting transformer has shifted the fields of the caller's row
C33_ShiftedInPlace ==
    /\ pc = "slice"
    /\ callee = AddRowNoTransformer("S.no")
    /\ calls # << >>
    /\ ~calls[1].panic
    /\ row # argRow

\* ---------------------------------------------------------------------- C34
\* the chunk the n-th data row belongs to when chunks hold k rows
ChunkOf(n, k) == ((n - 1) \div k) + 1

\* C34: for every data row the chunk ordinal in its context is
\* ((rowOrdinal - 1) div chunkCapacity) + 1, and the destination its result
\* is written to is the one the generator made for that ordinal; after a data
\* row the rollover flag is set exactly when rowOrdinal mod chunkCapacity = 0.
C34_ChunkOrdinal ==
    Running =>
        /\ \A i \in 1..Len(calls) :
              IsDataCall(i) =>
                  LET n == calls[i].ctx["CtxRowNum"]
                  IN  /\ n = DataCallsUpTo(i)
                      /\ calls[i].ctx["CtxChunkNum"] = ChunkOf(n, processor.chunkSize)
                      /\ genCalls[calls[i].sink] = ChunkOf(n, processor.chunkSize)
        /\ (currentRow >= 1 /\ fault = "none" /\ pc # "panicked") =>
              (needNewChunk <=> (currentRow % processor.chunkSize) = 0)

\* the third data row went to chunk 2 of capacity 2 and did not set the flag,
\* the second went to chunk 1 and did
C34_Witness ==
    /\ pc = "read"
    /\ processor.chunkSize = 2
    /\ currentRow = 3
    /\ ~needNewChunk
    /\ \E i, j \in 1..Len(calls) :
          /\ IsDataCall(i) /\ calls[i].ctx["CtxRowNum"] = 2 /\ calls[i].sink = 1
          /\ IsDataCall(j) /\ calls[j].ctx["CtxRowNum"] = 3 /\ calls[j].sink = 2
          /\ calls[j].ctx["CtxChunkNum"] = 2

\* ---------------------------------------------------------------------- C35
\* the chunks a run writing n data rows into chunks of k rows opens: one for
\* the header alone when there are no data rows, none for an empty input
ChunksFor(n, k) ==
    IF n > 0 THEN ((n - 1) \div k) + 1
    ELSE IF HeadersOn /\ Len(input) > 0 THEN 1
    ELSE 0

\* the row returned by the last Read is still to be written
RowPending == pc \in {"header", "row"}

\* C35: a chunk is opened only when a row is waiting for it: a destination
\* without data rows is the one just opened for the row read last, or the
\* first chunk of an input that has given its header row only; the generator
\* is called with 1, 2, ... in turn; and a run that succeeds has opened
\* exactly the chunks its data rows fill, so a number of data rows that is a
\* multiple of the capacity leaves no empty chunk at the end.
C35_NoEmptyChunk ==
    (Running /\ fault = "none" /\ pc # "panicked") =>
        /\ Len(sinks) = Len(genCalls)
        /\ Len(genCalls) <= Len(input)
        /\ \A i \in 1..Len(genCalls) : genCalls[i] = i
        /\ \A i \in 1..Len(sinks) :
              DataRowsOf(sinks[i]) = << >> =>
                  /\ i = Len(sinks)
                  /\ RowPending \/ (i = 1 /\ currentRow = 0 /\ HeadersOn)
        /\ Succeeded => Len(sinks) = ChunksFor(DataRowCount, processor.chunkSize)

\* a run of 4 data rows into chunks of 2 has succeeded with two chunks
C35_Witness ==
    /\ Succeeded
    /\ processor.chunkSize = 2
    /\ DataRowCount = 4
    /\ Len(sinks) = 2
    /\ Len(DataRowsOf(sinks[2])) = 2

\* ---------------------------------------------------------------------- C36
\* Process runs with AddChunkRowNoTransformer as its transformer
ChunkRowNoConfigured ==
    ~procNil /\ Named(processor.rowTransformer) = AddChunkRowNoTransformer("S.no")

\* C36: with AddChunkRowNoTransformer as the pipeline's transformer the
\* number put in front of a data row is the row's position, counted from 1,
\* among the data rows of the chunk it is written to: 1 for the first data row
\* of every chunk, the capacity for the last row of a full chunk, for every
\* capacity and with headers on or off; header rows get the column name.
C36_PositionInChunk ==
    (ChunkRowNoConfigured /\ Running) =>
        \A s \in 1..Len(sinks) :
            /\ \A j \in 1..Len(DataRowsOf(sinks[s])) :
                  /\ Len(DataRowsOf(sinks[s])[j].row) >= 1
                  /\ DataRowsOf(sinks[s])[j].row[1] = Itoa(j)
            /\ Len(DataRowsOf(sinks[s])) <= processor.chunkSize
            /\ \A j \in 1..Len(sinks[s].rows) :
                  IsHeaderRow(sinks[s].rows[j]) => sinks[s].rows[j].row[1] = "S.no"

\* two full chunks of 2 written after their header: the last row of each
\* carries 2, the first row of the second carries 1
C36_Witness ==
    /\ ChunkRowNoConfigured
    /\ Succeeded
    /\ HeadersOn
    /\ processor.chunkSize = 2
    /\ Len(sinks) = 2
    /\ Len(DataRowsOf(sinks[1])) = 2
    /\ DataRowsOf(sinks[1])[2].row[1] = "2"
    /\ DataRowsOf(sinks[2])[1].row[1] = "1"

\* ---------------------------------------------------------------------- C37
\* the place of the last option of opts with one of these names, 0 for none
LastIndex(names) ==
    LET at == { i \in 1..Len(opts) : opts[i].name \in names }
    IN  IF at = {} THEN 0 ELSE CHOOSE i \in at : \A j \in at : j <= i

\* the settings the last options give, the default where no option names one
LastSettings ==
    LET r == LastIndex({"WithReader", "WithFileReader"})
        g == LastIndex({"WithWriterGenerator"})
        k == LastIndex({"WithChunkSize"})
        h == LastIndex({"SkipHeaders"})
    IN  [ reader               |-> IF r = 0 THEN "nil" ELSE opts[r].reader,
          outputChunkGenerator |-> IF g = 0 THEN "nil" ELSE "generator",
          chunkSize            |-> IF k = 0 THEN 0 ELSE opts[k].size,
          skipHeaders          |-> IF h = 0 THEN FALSE ELSE opts[h].skip,
          rowTransformer       |-> "noop" ]

\* an option of the list returns an error itself
OptionFails == \E i \in 1..Len(opts) : opts[i] = WithFileReader("missing")

\* C37: New applies its options in the order given to a copy of the defaults,
\* so of several options for one setting the last one counts, and validate
\* runs once, on the result of them all: a setting that is invalid on the way
\* (no chunk size yet, chunk size 0 replaced later) does not make New fail,
\* and New fails with validate's error exactly when the final settings are
\* invalid.
C37_LastOptionWins ==
    (pc \in {"ready", "invalid"} /\ ~OptionFails) =>
        /\ newErr = validate(LastSettings)
        /\ procNil <=> newErr # "nil"
        /\ ~procNil => processor = LastSettings

\* WithChunkSize(1), then WithChunkSize(3), then another option gave a
\* Processor of chunk size 3
C37_Witness ==
    /\ pc = "ready"
    /\ ~procNil
    /\ processor.chunkSize = 3
    /\ \E i, j, l \in 1..Len(opts) :
          /\ i < j /\ j < l
          /\ opts[i] = WithChunkSize(1)
          /\ opts[j] = WithChunkSize(3)
          /\ opts[l] \in {WithReader, WithWriterGenerator}

\* a chunk size of 0 given first and replaced later did not make New fail
C37_WitnessInvalidOnTheWay ==
    /\ pc = "ready"
    /\ opts[1] = WithChunkSize(0)
    /\ processor.chunkSize = 2

\* ---------------------------------------------------------------------- C38
\* C38: AddConstantColumnTransformer(name, val, i) called on a row of fewer
\* than i fields does not return a row: the call faults, nothing is appended
\* or padded, for the header row and for data rows alike.
C38_BeyondEndFaults ==
    (/\ pc = "returned"
     /\ callee.kind = "AddConstantColumn"
     /\ callee.columIndex > Len(argRow)) =>
        /\ result.panic
        /\ result.ret = NilRow
        /\ result.trace = <<Event("panic", NilRow)>>

\* index 3 on a header row of 2 fields, and the call faulted
C38_Witness ==
    /\ pc = "returned"
    /\ callee = AddConstantColumnTransformer("col", "v", 3)
    /\ IsHeaderCall
    /\ Len(argRow) = 2
    /\ result.panic

\* the same on a data row, one cell beyond the end
C38_WitnessData ==
    /\ pc = "returned"
    /\ callee = AddConstantColumnTransformer("col", "v", 4)
    /\ ~IsHeaderCall
    /\ Len(argRow) = 3
    /\ result.panic
====
